---- MODULE Spec2Model ----
(***************************************************************************)
(* ComputerUseAI: the persistent store (captures, events, workflows), the  *)
(* capture files on disk, the retention passes of src/storage/cleanup.py   *)
(* and their startup sweep in src/main.py, the active queries              *)
(* (run_analysis, refresh_timeline) and the segment processor of           *)
(* src/processing/pipeline.py.                                             *)
(*                                                                         *)
(* Time is counted in whole days.  A path is a natural number.             *)
(***************************************************************************)
EXTENDS Integers, Sequences, FiniteSets, TLC

\* ------------------------------------------------------------- bounds
MaxCaptures == 2        \* rows of the captures table in an initial store
MaxEvents == 1          \* rows of the events table in an initial store
MaxDay == 2             \* timestamps, mtimes and day arguments range over 0..MaxDay
MaxBytes == 3           \* max_bytes arguments range over 0..MaxBytes
MaxSignals == 2         \* workflow_detected signals emitted in one behaviour
MaxArtifacts == 2       \* artifacts the producers finalize in one behaviour
MaxNameLen == 6         \* characters of a file name handed to timestamp extraction
MaxStarts == 2          \* runs of analysis that start() begins in one behaviour
MaxPeriods == 2         \* intervals of the analysis timer that elapse in one behaviour
MaxRows == 2            \* capture rows the segment processor commits in one behaviour
MaxLoops == 2           \* calls of a producer's start() that are in progress at once
MaxSentinels == 2       \* None sentinels waiting in the audio queue
MaxStreams == 2         \* input streams started and not closed
MaxRecordings == 2      \* calls of start_recording that start the producer threads
TicksPerSecond == 2     \* the producers' clock counts ticks of half a second
MaxTicks == 4           \* ticks of that clock in one behaviour
MaxSegmentTicks == 2    \* configured segment lengths range over 0..MaxSegmentTicks ticks
MaxEmitted == 3         \* segment-ready signals emitted in one behaviour
MaxInputs == 3          \* clicks and key presses passed to _log in one behaviour
MaxPixel == 2           \* pixel levels of a grabbed frame range over 0..MaxPixel
MaxShots == 3           \* frames grabbed in still mode in one behaviour
MaxCallers == 2         \* threads that call the workflow executor
MaxSteps == 2           \* steps of a workflow

Days == 0..MaxDay
SizeValues == {1, 2}               \* st_size of an artifact
OrphanPath == MaxCaptures + 1      \* a file in a capture directory that no row names
OutsidePath == MaxCaptures + 2     \* a file outside the capture directories
ArtifactPaths == 1..MaxArtifacts   \* the paths the producers write segments to

VARIABLES
    now,        \* the clock, in days
    captures,   \* rows of table "captures"
    events,     \* rows of table "events"
    files,      \* files on disk
    workflows,  \* rows of table "workflows"
    detected,   \* the workflow_detected signals emitted, in order
    pc,         \* where main() is in its startup cleanup
    settings,   \* the retention settings main() read
    finalized,  \* history: the paths a producer has finalized an artifact at
    last,       \* history: the last operation called, its argument and what it did
    tombstone,  \* history: <<table, id, day>> for every soft-delete committed
    extraction, \* history: the last call of _extract_timestamp_from_filename
    inference,  \* history: the last call of analyze_workflow
    timerActive, \* analysis_timer.isActive()
    due,        \* the timer's interval has elapsed and its timeout awaits delivery
    running,    \* the calls of run_analysis in progress
    runs,       \* history: the calls of run_analysis made by start() and by the timer
    periods,    \* history: the intervals of the timer that have elapsed
    calls,      \* history: the collaborator calls the last segment handler run made
    screen,     \* ScreenCapture: _running, the capture loops, _video_writer
    audio,      \* AudioCapture: _running, the loops, _stream, the streams open, the queue
    tracker,    \* EventTracker: _running, its listener attributes, the listeners started
    window,     \* MainWindow: the Stop button, the producer threads, stop_recording's position
    ticks,      \* the time the producers read, in ticks of the clock
    emitted,    \* the segment-ready signals the producers of the recording emitted, in order
    loop,       \* the processing thread: its event queue and the slots it is running
    eventlog    \* the event log file: its lines, and history of the events delivered

\* The analysis scheduler: the pipeline's timer and its slot.
scheduler == <<timerActive, due, running, runs, periods>>

\* The three producers.
producers == <<screen, audio, tracker>>

\* What connects the producers, the pipeline and the window.
signals == <<ticks, emitted, loop, eventlog>>

wiring == <<window, signals>>

\* The state of the parts of the program the storage actions do not touch.
others == <<extraction, inference, scheduler, producers, wiring>>

control == <<others, calls>>

\* The store, the disk, and what main() and the history variables hold of them.
store == <<now, captures, events, files, workflows, detected, pc, settings, finalized,
           last, tombstone>>

vars == <<now, captures, events, files, workflows, detected, pc, settings, finalized,
          last, tombstone, control>>

\* The frames the grabber hands back: a shape and the mean level of the pixels; none.
Frames == [shape : {1}, level : 0..MaxPixel] \cup {[shape |-> 2, level |-> 0]}
NoFrame == [shape |-> 0, level |-> 0]

\* change_threshold, in units of 1/MaxPixel.
Thresholds == 0..MaxPixel

\* ------------------------------------------------------------- schema
\* The columns the mapped classes declare.  Neither class declares `deleted`.
CaptureColumns == {"id", "timestamp", "type", "file_path", "size_bytes", "metadata_json"}
EventColumns == {"id", "timestamp", "event_type", "application", "details_json"}

\* Capture.deleted / Event.deleted in a filter is an attribute lookup on the mapped
\* class: on a class that declares no such column it raises AttributeError before
\* any statement reaches the database.
DeletedRaises(cols) == "deleted" \notin cols

\* A row as the model holds it.  `deleted` is the flag cleanup.py reads and writes; as
\* the tables have no such column, a stored row can only hold FALSE.
NewCapture(i, ts, ty, p, sz, md) ==
    [id |-> i, timestamp |-> ts, type |-> ty, file_path |-> p, size_bytes |-> sz,
     metadata |-> md, deleted |-> FALSE]

NewEvent(i, ts) == [id |-> i, timestamp |-> ts, event_type |-> "mouse_click", deleted |-> FALSE]

\* A file on disk: its path, its modification day, its size, whether it lies under one
\* of the capture directories, the day its name encodes, and what the collaborators get
\* out of it: whether the container opens, whether a first frame decodes, the text found.
NewFile(p, mt, sz, inside, opens, frame, text) ==
    [path |-> p, mtime |-> mt, size |-> sz, indir |-> inside, stamp |-> mt,
     openable |-> opens, frame |-> frame, text |-> text]

PlainFile(p, mt, sz, inside) == NewFile(p, mt, sz, inside, TRUE, TRUE, "")

Paths(fs) == {f.path : f \in fs}
Ids(rows) == {r.id : r \in rows}

RECURSIVE SumSizes(_)
SumSizes(rows) ==
    IF rows = {} THEN 0
    ELSE LET r == CHOOSE x \in rows : TRUE IN r.size_bytes + SumSizes(rows \ {r})

\* The history record of one call: the clock at the call, the rows it marked deleted, the
\* rows it removed, the paths it unlinked, the paths whose unlink raised, its return
\* value, whether its database block raised, the rows a query returned or a handler
\* committed; and, when it repeats the call before (same operation, argument and clock),
\* what that call unlinked and failed to unlink.
Call(op, arg, marked, removed, unlinked, failed, ret, raised, rows) ==
    LET again == last.op = op /\ last.arg = arg /\ last.at = now
    IN [op |-> op, arg |-> arg, at |-> now, marked |-> marked, removed |-> removed,
        unlinked |-> unlinked, failed |-> failed, ret |-> ret, raised |-> raised,
        rows |-> rows, again |-> again,
        prevUnlinked |-> IF again THEN last.unlinked ELSE {},
        prevFailed |-> IF again THEN last.failed ELSE {}]

NoCall == [op |-> "none", arg |-> 0, at |-> 0, marked |-> {}, removed |-> {},
           unlinked |-> {}, failed |-> {}, ret |-> 0, raised |-> FALSE, rows |-> {},
           again |-> FALSE, prevUnlinked |-> {}, prevFailed |-> {}]

NoSettings == [max_keep_days |-> 0, max_bytes |-> 0, retention_days |-> 0]

\* session.commit() raises only where the code reaches it.
CommitOutcomes(reached) == IF reached THEN BOOLEAN ELSE {FALSE}

\* ------------------------------------------------------------- age pass
\* select(Model).filter(Model.timestamp < cutoff_date, Model.deleted == False)
OldRows(rows, cutoff) == {r \in rows : r.timestamp < cutoff /\ ~r.deleted}

\* for row in rows_to_delete: row.deleted = True
MarkDeleted(rows, sel) == {IF r \in sel THEN [r EXCEPT !.deleted = TRUE] ELSE r : r \in rows}

\* A variant of the database half that issues DELETE for the old rows instead of
\* marking them.
AgeDeleteDB(caps, evs, cutoff, dbError) ==
    [captures |-> {r \in caps : r.timestamp >= cutoff},
     events |-> {r \in evs : r.timestamp >= cutoff},
     marked |-> {}, count |-> 0, raised |-> dbError]

\* The database half of cleanup_old_files.  removed_count is counted in the loops, before
\* the commit, and survives a rollback.
AgeMarkDB(caps, evs, cutoff, dbError) ==
    IF DeletedRaises(CaptureColumns)
    THEN [captures |-> caps, events |-> evs, marked |-> {}, count |-> 0, raised |-> TRUE]
    ELSE IF DeletedRaises(EventColumns)
    THEN [captures |-> caps, events |-> evs, marked |-> {},
          count |-> Cardinality(OldRows(caps, cutoff)), raised |-> TRUE]
    ELSE IF dbError
    THEN [captures |-> caps, events |-> evs, marked |-> {},
          count |-> Cardinality(OldRows(caps, cutoff)) + Cardinality(OldRows(evs, cutoff)),
          raised |-> TRUE]
    ELSE [captures |-> MarkDeleted(caps, OldRows(caps, cutoff)),
          events |-> MarkDeleted(evs, OldRows(evs, cutoff)),
          marked |-> {<<"capture", r.id>> : r \in OldRows(caps, cutoff)}
                     \cup {<<"event", r.id>> : r \in OldRows(evs, cutoff)},
          count |-> Cardinality(OldRows(caps, cutoff)) + Cardinality(OldRows(evs, cutoff)),
          raised |-> FALSE]

\* A variant of the filesystem half that stops after the first old file.
OldFilesFirstOnly(fs, cutoff) ==
    LET old == {f \in fs : f.indir /\ f.mtime < cutoff}
    IN {f \in old : \A g \in old : f.path <= g.path}

\* A variant of the filesystem half that compares with <= (a file as old as the cutoff goes).
OldFilesInclusive(fs, cutoff) == {f \in fs : f.indir /\ f.mtime <= cutoff}

\* The filesystem half: the files under the directories whose mtime is before the cutoff.
OldFiles(fs, cutoff) == {f \in fs : f.indir /\ f.mtime < cutoff}

CleanupOldFiles(max_age_days) ==
    \E dbError \in CommitOutcomes(~DeletedRaises(CaptureColumns) /\ ~DeletedRaises(EventColumns)) :
        LET cutoff == now - max_age_days
            db == AgeMarkDB(captures, events, cutoff, dbError)
            old == OldFiles(files, cutoff)
        IN \E fail \in SUBSET old :     \* stat() or unlink() raises: logged, file skipped
            /\ captures' = db.captures
            /\ events' = db.events
            /\ files' = files \ (old \ fail)
            /\ last' = Call("age", max_age_days, db.marked, {}, Paths(old \ fail), Paths(fail),
                             db.count + Cardinality(old \ fail), db.raised, {})
            /\ tombstone' = tombstone \cup {<<k[1], k[2], now>> : k \in db.marked}
            /\ UNCHANGED <<control, now, workflows, detected, finalized>>

cleanup_old_files ==
    /\ pc = "idle"
    /\ \E max_age_days \in Days : CleanupOldFiles(max_age_days)
    /\ UNCHANGED <<pc, settings>>

\* ------------------------------------------------------------- size pass
NonDeleted(rows) == {r \in rows : ~r.deleted}

\* order_by(Capture.timestamp.asc()): every listing of the rows in ascending timestamp
\* order; the order among equal timestamps is the database's choice.
Orderings(rows) ==
    {s \in [1..Cardinality(rows) -> rows] :
        /\ \A i, j \in DOMAIN s : i # j => s[i] # s[j]
        /\ \A i, j \in DOMAIN s : i < j => s[i].timestamp <= s[j].timestamp}

\* for capture in captures_to_consider: if current_total_bytes <= max_bytes: break; mark it
RECURSIVE SizeLoop(_, _, _, _)
SizeLoop(order, i, current_total_bytes, max_bytes) ==
    IF i > Len(order) \/ current_total_bytes <= max_bytes
    THEN {}
    ELSE {order[i]} \cup
         SizeLoop(order, i + 1, current_total_bytes - order[i].size_bytes, max_bytes)

\* The database half of cleanup_size_limit.
SizeMarkDB(caps, max_bytes, order, dbError) ==
    IF DeletedRaises(CaptureColumns)
    THEN [captures |-> caps, marked |-> {}, count |-> 0, raised |-> TRUE]
    ELSE IF SumSizes(NonDeleted(caps)) <= max_bytes
    THEN [captures |-> caps, marked |-> {}, count |-> 0, raised |-> FALSE]
    ELSE IF dbError
    THEN [captures |-> caps, marked |-> {}, count |-> 0, raised |-> TRUE]
    ELSE LET sel == SizeLoop(order, 1, SumSizes(NonDeleted(caps)), max_bytes)
         IN [captures |-> MarkDeleted(caps, sel), marked |-> sel,
             count |-> Cardinality(sel), raised |-> FALSE]

\* The files the rows in `rows` name that exist on disk.
FilesOf(fs, rows) == {f \in fs : \E r \in rows : r.file_path = f.path}

CleanupSizeLimit(max_bytes) ==
    \E dbError \in CommitOutcomes(~DeletedRaises(CaptureColumns)
                                  /\ SumSizes(NonDeleted(captures)) > max_bytes),
       order \in Orderings(NonDeleted(captures)) :
        LET db == SizeMarkDB(captures, max_bytes, order, dbError)
            doomed == FilesOf(files, db.marked)
        IN \E fail \in SUBSET doomed :
            /\ captures' = db.captures
            /\ files' = files \ (doomed \ fail)
            /\ tombstone' = tombstone \cup {<<"capture", r.id, now>> : r \in db.marked}
            /\ last' = Call("size", max_bytes, {<<"capture", r.id>> : r \in db.marked}, {},
                             Paths(doomed \ fail), Paths(fail), db.count, db.raised, {})
            /\ UNCHANGED <<control, now, events, workflows, detected, finalized>>

cleanup_size_limit ==
    /\ pc = "idle"
    /\ \E max_bytes \in 0..MaxBytes : CleanupSizeLimit(max_bytes)
    /\ UNCHANGED <<pc, settings>>

\* ------------------------------------------------------------- hard-delete pass
\* select(Model).filter(Model.deleted == True, Model.timestamp < retention_cutoff)
HardDeleteRows(rows, retention_cutoff) ==
    {r \in rows : r.deleted /\ r.timestamp < retention_cutoff}

\* The files the pass tries to unlink.
HardDeleteFiles(caps, fs, retention_cutoff) ==
    IF DeletedRaises(CaptureColumns) THEN {}
    ELSE FilesOf(fs, HardDeleteRows(caps, retention_cutoff))

\* A variant of the pass whose capture filter names the timestamp alone
\* (select(Capture).filter(Capture.timestamp < retention_cutoff)).
HardDeleteByTimestamp(caps, evs, fs, retention_cutoff, fail, dbError) ==
    LET sel == {r \in caps : r.timestamp < retention_cutoff}
        evsel == {r \in evs : r.timestamp < retention_cutoff}
    IN [captures |-> caps \ sel, events |-> evs \ evsel, files |-> fs \ FilesOf(fs, sel),
        removed |-> {<<"capture", r>> : r \in sel} \cup {<<"event", r>> : r \in evsel},
        unlinked |-> Paths(FilesOf(fs, sel)),
        count |-> Cardinality(sel) + Cardinality(evsel), raised |-> FALSE]

\* physical_cleanup_deleted_records.  `fail` are the files whose unlink raises: the row of
\* such a file is skipped; the files unlinked before a failed commit stay unlinked.
HardDelete(caps, evs, fs, retention_cutoff, fail, dbError) ==
    IF DeletedRaises(CaptureColumns)
    THEN [captures |-> caps, events |-> evs, files |-> fs, removed |-> {}, unlinked |-> {},
          count |-> 0, raised |-> TRUE]
    ELSE LET sel == HardDeleteRows(caps, retention_cutoff)
             kept == {r \in sel : \E f \in fail : f.path = r.file_path}
             goneFiles == FilesOf(fs, sel) \ fail
             goneCaps == sel \ kept
         IN IF DeletedRaises(EventColumns) \/ dbError
            THEN [captures |-> caps, events |-> evs, files |-> fs \ goneFiles,
                  removed |-> {}, unlinked |-> Paths(goneFiles),
                  count |-> Cardinality(goneCaps)
                            + (IF DeletedRaises(EventColumns) THEN 0
                               ELSE Cardinality(HardDeleteRows(evs, retention_cutoff))),
                  raised |-> TRUE]
            ELSE [captures |-> caps \ goneCaps,
                  events |-> evs \ HardDeleteRows(evs, retention_cutoff),
                  files |-> fs \ goneFiles,
                  removed |-> {<<"capture", r>> : r \in goneCaps}
                              \cup {<<"event", r>> : r \in HardDeleteRows(evs, retention_cutoff)},
                  unlinked |-> Paths(goneFiles),
                  count |-> Cardinality(goneCaps)
                            + Cardinality(HardDeleteRows(evs, retention_cutoff)),
                  raised |-> FALSE]

PhysicalCleanupDeletedRecords(retention_days) ==
    \E dbError \in CommitOutcomes(~DeletedRaises(CaptureColumns) /\ ~DeletedRaises(EventColumns)),
       fail \in SUBSET HardDeleteFiles(captures, files, now - retention_days) :
        LET res == HardDelete(captures, events, files, now - retention_days, fail, dbError)
        IN  /\ captures' = res.captures
            /\ events' = res.events
            /\ files' = res.files
            /\ last' = Call("hard", retention_days, {}, res.removed, res.unlinked, Paths(fail),
                             res.count, res.raised, {})
            /\ UNCHANGED <<control, now, tombstone, workflows, detected, finalized>>

physical_cleanup_deleted_records ==
    /\ pc = "idle"
    /\ \E retention_days \in Days : PhysicalCleanupDeletedRecords(retention_days)
    /\ UNCHANGED <<pc, settings>>

\* ------------------------------------------------------------- startup sweep
\* main(): the three passes in order, each with the setting main() read.
main_cleanup_old_files ==
    /\ pc = "age"
    /\ CleanupOldFiles(settings.max_keep_days)
    /\ pc' = "size"
    /\ UNCHANGED settings

main_cleanup_size_limit ==
    /\ pc = "size"
    /\ CleanupSizeLimit(settings.max_bytes)
    /\ pc' = "hard"
    /\ UNCHANGED settings

main_physical_cleanup ==
    /\ pc = "hard"
    /\ PhysicalCleanupDeletedRecords(settings.retention_days)
    /\ pc' = "done"
    /\ UNCHANGED settings

\* ------------------------------------------------------------- producers
\* A producer closes a segment file named by the current time and emits its ready signal.
\* The file is what the recorder made of the session: a container that opens or not, a
\* first frame that decodes or not, speech or screen text in it or none.
FinalizeSegment(kind, p) ==
    /\ pc = "idle"
    /\ \A k \in finalized : k[1] # p
    /\ \E sz \in SizeValues, text \in {"", "text"} :
         \E opens \in (IF kind = "video" THEN BOOLEAN ELSE {TRUE}) :
           \E frame \in (IF kind = "video" /\ opens THEN BOOLEAN ELSE {opens}) :
             /\ (~frame => text = "")
             /\ files' = files \cup {NewFile(p, now, sz, TRUE, opens, frame, text)}
    /\ finalized' = finalized \cup {<<p, kind>>}
    /\ UNCHANGED <<control, now, captures, events, workflows, detected, pc, settings, last, tombstone>>

finalize_audio_segment == \E p \in ArtifactPaths : FinalizeSegment("audio", p)

finalize_video_segment == \E p \in ArtifactPaths : FinalizeSegment("video", p)

\* ------------------------------------------------------------- segment processor
\* The id the database gives the next inserted row.
NextId(rows) == IF rows = {} THEN 1 ELSE 1 + CHOOSE i \in Ids(rows) : \A j \in Ids(rows) : j <= i

\* _extract_timestamp_from_filename: the time the name encodes, else the current time.
ExtractTimestamp(f, clock) == IF f.stamp >= 0 THEN f.stamp ELSE clock

\* The Capture row a handler builds for the file.
CaptureFor(rows, f, ty, clock) ==
    NewCapture(NextId(rows), ExtractTimestamp(f, clock), ty, f.path, f.size, f.text)

\* The collaborator calls a handler run makes on an existing file: transcription for
\* audio; for video the container is opened, the first frame read if it opened, OCR run
\* if a frame came, the row inserted if `insert`; then the unlink.
HandlerCalls(f, ty, insert) ==
    (IF ty = "audio" THEN {"transcribe_file"} ELSE {"VideoCapture"})
    \cup (IF ty = "screen" /\ f.openable THEN {"read"} ELSE {})
    \cup (IF ty = "screen" /\ insert THEN {"ocr.extract"} ELSE {})
    \cup (IF insert THEN {"commit"} ELSE {})
    \cup {"unlink"}

\* A variant of the slot body that builds and inserts the row whatever came of the
\* container.
ProcessExistingAlwaysInsert(op, f, ty, insert, dbError, unlinkFails) ==
    LET row == CaptureFor(captures, f, ty, now)
    IN  /\ captures' = IF dbError THEN captures ELSE captures \cup {row}
        /\ files' = IF unlinkFails THEN files ELSE files \ {f}
        /\ calls' = HandlerCalls(f, ty, TRUE)
        /\ last' = Call(op, f.path, {}, {},
                        IF unlinkFails THEN {} ELSE {f.path},
                        IF unlinkFails THEN {f.path} ELSE {},
                        0, dbError, IF dbError THEN {} ELSE {row})

\* A variant of the slot body in which a failing unlink takes the inserted row with it.
ProcessExistingUnlinkRollsBack(op, f, ty, insert, dbError, unlinkFails) ==
    LET row == CaptureFor(captures, f, ty, now)
        committed == insert /\ ~dbError /\ ~unlinkFails
    IN  /\ captures' = IF committed THEN captures \cup {row} ELSE captures
        /\ files' = IF unlinkFails THEN files ELSE files \ {f}
        /\ calls' = HandlerCalls(f, ty, insert)
        /\ last' = Call(op, f.path, {}, {},
                        IF unlinkFails THEN {} ELSE {f.path},
                        IF unlinkFails THEN {f.path} ELSE {},
                        0, insert /\ dbError,
                        IF insert /\ ~dbError THEN {row} ELSE {})

\* The slot body shared by the two handlers once the file is known to exist: insert the
\* row when `insert`, then unlink the file.  dbError: the insert block raises and is
\* rolled back.  unlinkFails: unlink raises and is logged.
ProcessExisting(op, f, ty, insert, dbError, unlinkFails) ==
    LET row == CaptureFor(captures, f, ty, now)
        committed == insert /\ ~dbError
    IN  /\ captures' = IF committed THEN captures \cup {row} ELSE captures
        /\ files' = IF unlinkFails THEN files ELSE files \ {f}
        /\ calls' = HandlerCalls(f, ty, insert)
        /\ last' = Call(op, f.path, {}, {},
                        IF unlinkFails THEN {} ELSE {f.path},
                        IF unlinkFails THEN {f.path} ELSE {},
                        0, insert /\ dbError,
                        IF committed THEN {row} ELSE {})

\* The file is not there: a warning, nothing else.
ProcessMissing(op, p) ==
    /\ last' = Call(op, p, {}, {}, {}, {}, 0, FALSE, {})
    /\ calls' = {}
    /\ UNCHANGED <<captures, files>>

process_audio ==
    /\ pc = "idle"
    /\ \E p \in ArtifactPaths :
        /\ <<p, "audio">> \in finalized
        /\ IF \E f \in files : f.path = p
           THEN /\ Cardinality(captures) < MaxRows
                /\ \E f \in files, dbError \in BOOLEAN, unlinkFails \in BOOLEAN :
                     /\ f.path = p
                     /\ ProcessExisting("process_audio", f, "audio", TRUE, dbError, unlinkFails)
           ELSE ProcessMissing("process_audio", p)
    /\ UNCHANGED <<others, now, events, workflows, detected, pc, settings, finalized, tombstone>>

process_video ==
    /\ pc = "idle"
    /\ \E p \in ArtifactPaths :
        /\ <<p, "video">> \in finalized
        /\ IF \E f \in files : f.path = p
           THEN /\ Cardinality(captures) < MaxRows
                /\ \E f \in files, unlinkFails \in BOOLEAN :
                     /\ f.path = p
                     /\ \E dbError \in CommitOutcomes(f.openable /\ f.frame) :
                          \* not opened: unlink and return; no first frame: a warning
                          ProcessExisting("process_video", f, "screen",
                                          f.openable /\ f.frame, dbError, unlinkFails)
           ELSE ProcessMissing("process_video", p)
    /\ UNCHANGED <<others, now, events, workflows, detected, pc, settings, finalized, tombstone>>

\* ------------------------------------------------------------- active queries
\* The inference results the language model collaborator can hand back.
LLMResults ==
    [workflow_summary : {"", "LLM response was not valid JSON.", "copy cells"},
     is_repetitive : BOOLEAN]

DefaultResult == [workflow_summary |-> "", is_repetitive |-> FALSE]

ErrorSummaries == {"", "LLM response was not valid JSON.", "LLM returned no content."}

\* timedelta(seconds=self.analysis_interval_sec * 1.1), in the model's whole time units
AnalysisWindow(interval) == (interval * 11) \div 10

\* query(Model).filter(Model.timestamp >= start_time_utc, Model.deleted == False)
RecentRows(rows, start_time_utc) == {r \in rows : r.timestamp >= start_time_utc /\ ~r.deleted}

\* The two window queries of run_analysis.
AnalysisQuery(caps, evs, start_time_utc) ==
    IF DeletedRaises(CaptureColumns) \/ DeletedRaises(EventColumns)
    THEN [rows |-> {}, raised |-> TRUE]
    ELSE [rows |-> {<<"capture", r>> : r \in RecentRows(caps, start_time_utc)}
                   \cup {<<"event", r>> : r \in RecentRows(evs, start_time_utc)},
          raised |-> FALSE]

\* The upsert of a Workflow row by name.
UpsertWorkflow(ws, result, day) ==
    IF \E w \in ws : w.name = result.workflow_summary
    THEN {IF w.name = result.workflow_summary
          THEN [w EXCEPT !.last_used = day, !.pattern = result] ELSE w : w \in ws}
    ELSE ws \cup {[name |-> result.workflow_summary, pattern |-> result,
                   created |-> day, last_used |-> day]}

\* The body of run_analysis: the window queries, the inference, the upsert and the signal.
RunAnalysis ==
    /\ \E interval \in Days :
        LET q == AnalysisQuery(captures, events, now - AnalysisWindow(interval))
            asked == ~q.raised /\ q.rows # {}       \* analyze_workflow is called
        IN \E result \in (IF asked THEN LLMResults ELSE {DefaultResult}),
              dbError \in CommitOutcomes(asked) :
            LET save == /\ asked
                        /\ result.is_repetitive
                        /\ result.workflow_summary \notin ErrorSummaries
                        /\ ~dbError
                        /\ Len(detected) < MaxSignals
            IN  /\ last' = Call("analysis", interval, {}, {}, {}, {}, 0, q.raised, q.rows)
                /\ workflows' = IF save THEN UpsertWorkflow(workflows, result, now)
                                ELSE workflows
                /\ detected' = IF save THEN Append(detected, result) ELSE detected
    /\ UNCHANGED <<now, captures, events, files, tombstone, pc, settings, finalized>>

\* run_analysis called on its own.
run_analysis ==
    /\ pc = "idle"
    /\ RunAnalysis
    /\ UNCHANGED control

\* refresh_timeline: the newest non-deleted captures and events.
TimelineQuery(caps, evs) ==
    IF DeletedRaises(CaptureColumns) \/ DeletedRaises(EventColumns)
    THEN [rows |-> {}, raised |-> TRUE]
    ELSE [rows |-> {<<"capture", r>> : r \in NonDeleted(caps)}
                   \cup {<<"event", r>> : r \in NonDeleted(evs)},
          raised |-> FALSE]

refresh_timeline ==
    /\ pc = "idle"
    /\ LET q == TimelineQuery(captures, events)
       IN last' = Call("timeline", 0, {}, {}, {}, {}, 0, q.raised, q.rows)
    /\ UNCHANGED <<control, now, captures, events, files, workflows, detected, tombstone, pc,
                   settings, finalized>>

\* The clock advances by a day.
Tick ==
    /\ pc = "idle"
    /\ now <= MaxDay
    /\ now' = now + 1
    /\ UNCHANGED <<control, captures, events, files, workflows, detected, pc, settings,
                   finalized, last, tombstone>>

\* ------------------------------------------------------------- analysis scheduler
\* A variant in which a slot is entered whatever is running (a direct call from another
\* thread).
EventLoopDeliversAnytime == TRUE

\* The pipeline lives in the processing thread: start(), stop() and the timer's timeout
\* are delivered by that thread's event loop, one at a time, each when the slot running
\* before it has returned.
EventLoopIdle == running = 0 /\ loop.active = {}

\* The timer after a run that ended in its except block, in a variant where the
\* exception leaves run_analysis and takes the timer with it.
TimerDiesOnError(active, raised) == active /\ ~raised

\* The timer after a run: run_analysis catches every exception, so the timer is as it was.
TimerAfterRun(active, raised) == active

\* A variant of start() that starts the timer and leaves the first run to it.
pipeline_start_timer_only ==
    /\ pc = "idle"
    /\ EventLoopIdle
    /\ IF timerActive
       THEN UNCHANGED scheduler /\ calls' = {"warning"}
       ELSE /\ runs < MaxStarts + periods
            /\ timerActive' = TRUE
            /\ due' = FALSE
            /\ calls' = {}
            /\ UNCHANGED <<running, runs, periods>>
    /\ UNCHANGED <<store, extraction, inference, producers, wiring>>

\* A variant of start() without the test of isActive(): QTimer.start() on an active timer
\* starts its interval anew, and the run is made.
pipeline_start_rearms ==
    /\ pc = "idle"
    /\ EventLoopIdle
    /\ runs < MaxStarts + periods
    /\ timerActive' = TRUE
    /\ due' = FALSE
    /\ running' = running + 1
    /\ runs' = runs + 1
    /\ calls' = {}
    /\ UNCHANGED <<periods, store, extraction, inference, producers, wiring>>

\* start(): if the timer is active a warning is logged and nothing else is done; else the
\* timer is started and run_analysis is called at once, from start() itself.
pipeline_start ==
    /\ pc = "idle"
    /\ EventLoopIdle
    /\ IF timerActive
       THEN UNCHANGED scheduler /\ calls' = {"warning"}
       ELSE /\ runs < MaxStarts + periods
            /\ timerActive' = TRUE
            /\ due' = FALSE
            /\ running' = running + 1
            /\ runs' = runs + 1
            /\ calls' = {}
            /\ UNCHANGED periods
    /\ UNCHANGED <<store, extraction, inference, producers, wiring>>

\* stop(): if the timer is not active a warning is logged and nothing else is done; else
\* the timer is stopped.
pipeline_stop ==
    /\ pc = "idle"
    /\ EventLoopIdle
    /\ IF timerActive
       THEN timerActive' = FALSE /\ due' = FALSE /\ calls' = {}
       ELSE UNCHANGED <<timerActive, due>> /\ calls' = {"warning"}
    /\ UNCHANGED <<running, runs, periods, store, extraction, inference, producers, wiring>>

\* The interval of the active timer elapses; this can happen while a slot is running.
period_elapses ==
    /\ timerActive
    /\ ~due
    /\ periods < MaxPeriods
    /\ due' = TRUE
    /\ periods' = periods + 1
    /\ UNCHANGED <<timerActive, running, runs, store, calls, extraction, inference, producers, wiring>>

\* The event loop delivers the timeout: run_analysis is called.
timer_timeout ==
    /\ timerActive
    /\ due
    /\ EventLoopIdle
    /\ due' = FALSE
    /\ running' = running + 1
    /\ runs' = runs + 1
    /\ UNCHANGED <<timerActive, periods, store, calls, extraction, inference, producers, wiring>>

\* A call of run_analysis does its work and returns.
analysis_returns ==
    /\ running > 0
    /\ RunAnalysis
    /\ running' = running - 1
    /\ timerActive' = TimerAfterRun(timerActive, last'.raised)
    /\ UNCHANGED <<due, runs, periods, calls, extraction, inference, producers, wiring>>

SchedulerIdle ==
    /\ timerActive = FALSE
    /\ due = FALSE
    /\ running = 0
    /\ runs = 0
    /\ periods = 0

\* ------------------------------------------------------------- inference
\* A dict, as a function from its keys.
Get(dict, key, default) == IF key \in DOMAIN dict THEN dict[key] ELSE default

\* {**a, **b}: the keys of both, the values of b where both have the key.
Merge(a, b) ==
    [k \in DOMAIN a \cup DOMAIN b |-> IF k \in DOMAIN b THEN b[k] ELSE a[k]]

RequiredKeys == {"workflow_summary", "steps", "is_repetitive", "automation_potential"}

default_response ==
    [workflow_summary |-> "", steps |-> <<>>, is_repetitive |-> FALSE,
     automation_potential |-> "low"]

\* The JSON objects the model may write: any subset of the required keys, each with a
\* value of its type.
JsonObjects ==
    {[k \in keys |-> full[k]] :
        keys \in SUBSET RequiredKeys,
        full \in [workflow_summary : {"", "copy cells"}, steps : {<<>>, <<"click">>},
                  is_repetitive : BOOLEAN, automation_potential : {"low", "high"}]}

\* What create_chat_completion can give: an exception, a response without choices, a
\* choice without content, content None, or a text; a text is prose without braces,
\* braces around something json.loads rejects, or a JSON object.
Responses ==
    [kind : {"raises", "no choices", "no content", "content None", "prose", "broken json"},
     json : {<<>>}]
    \cup [kind : {"object"}, json : JsonObjects]

\* _safe_json on a text of the given kind.
SafeJson(response) ==
    IF response.kind = "prose"
    THEN [workflow_summary |-> "LLM response did not contain JSON object.", steps |-> <<>>,
          is_repetitive |-> FALSE, automation_potential |-> "low"]
    ELSE IF response.kind = "broken json"
    THEN [workflow_summary |-> "LLM response was not valid JSON.", steps |-> <<>>,
          is_repetitive |-> FALSE, automation_potential |-> "low"]
    ELSE IF ~(RequiredKeys \subseteq DOMAIN response.json)
    THEN [workflow_summary |-> Get(response.json, "workflow_summary", "JSON missing keys"),
          steps |-> Get(response.json, "steps", <<>>),
          is_repetitive |-> Get(response.json, "is_repetitive", FALSE),
          automation_potential |-> Get(response.json, "automation_potential", "low")]
    ELSE response.json

\* LocalLLM.analyze_workflow: what it returns; it raises nothing, every failure after the
\* prompt is built being caught.
AnalyzeWorkflow(loaded, response) ==
    IF ~loaded THEN default_response
    ELSE IF response.kind \in {"raises", "no choices", "no content"} THEN default_response
    ELSE IF response.kind = "content None"
    THEN Merge([workflow_summary |-> "LLM returned no content."], default_response)
    ELSE SafeJson(response)

NotAnalyzed == [workflow_summary |-> "not called"]

NoInference == [loaded |-> FALSE, response |-> [kind |-> "raises", json |-> <<>>],
                result |-> NotAnalyzed]

analyze_workflow ==
    /\ inference.result = NotAnalyzed
    /\ inference' = [inference EXCEPT
                       !.result = AnalyzeWorkflow(inference.loaded, inference.response)]
    /\ UNCHANGED <<store, calls, extraction, scheduler, producers, wiring>>

\* ------------------------------------------------------------- timestamp extraction
\* File names are sequences of characters.  The model keeps the shape of the producers'
\* names, prefix_<date>_<time><rest>, with one digit for the date and one for the time
\* of day, two times of day to the day.
NameChars == {"a", "_", ".", "0", "1"}
Digits == {"0", "1"}
Names == UNION {[1..n -> NameChars] : n \in 0..MaxNameLen}

\* The local zone's offset from UTC, in the same unit as the time of day.
UtcOffsets == {0, 1}

\* str.split(sep): the pieces between the separators, in order.
RECURSIVE SplitFrom(_, _, _, _)
SplitFrom(str, sep, i, piece) ==
    IF i > Len(str) THEN <<piece>>
    ELSE IF str[i] = sep THEN <<piece>> \o SplitFrom(str, sep, i + 1, <<>>)
    ELSE SplitFrom(str, sep, i + 1, Append(piece, str[i]))

Split(str, sep) == SplitFrom(str, sep, 1, <<>>)

DigitValue(c) == IF c = "1" THEN 1 ELSE 0

\* datetime.strptime(timestamp_str, format): the wall-clock time the digits spell, or a
\* ValueError when the string is not a date digit followed by a time digit and nothing else.
Strptime(timestamp_str) ==
    IF Len(timestamp_str) = 2 /\ \A i \in 1..2 : timestamp_str[i] \in Digits
    THEN [ok |-> TRUE, wall |-> 2 * DigitValue(timestamp_str[1]) + DigitValue(timestamp_str[2])]
    ELSE [ok |-> FALSE, wall |-> 0]

\* _extract_timestamp_from_filename.  local_offset is the offset of the zone
\* datetime.now(pytz.UTC).astimezone() reports, that is the one in force at the call.
ExtractTimestampFromFilename(filename, local_offset) ==
    LET parts == Split(filename, "_")
    IN IF Len(parts) >= 3
       THEN LET dt_obj == Strptime(parts[2] \o Split(parts[3], ".")[1])
            IN IF dt_obj.ok
               THEN [from |-> "name", utc |-> dt_obj.wall - local_offset]
               ELSE [from |-> "now", utc |-> 0]
       ELSE [from |-> "now", utc |-> 0]

NotExtracted == [from |-> "none", utc |-> 0]

NoExtraction ==
    [filename |-> <<>>, name_offset |-> 0, local_offset |-> 0, result |-> NotExtracted]

\* The handler's call of the helper on the name it was handed.
extract_timestamp ==
    /\ extraction.result = NotExtracted
    /\ extraction' = [extraction EXCEPT
                        !.result = ExtractTimestampFromFilename(extraction.filename,
                                                                extraction.local_offset)]
    /\ UNCHANGED <<store, calls, inference, scheduler, producers, wiring>>

\* ------------------------------------------------------------- producers
\* Each producer's start() is the slot of its own thread; stop() is called from the main
\* thread.  The artifacts the loops write are the finalize_* actions above; here is what
\* start() and stop() do to the producer itself.
CaptureModes == {"images", "video"}

\* The segment lengths a configuration can ask for, in ticks.
SegmentTicks == 0..MaxSegmentTicks

\* The second a tick lies in: what strftime("%Y%m%d_%H%M%S") puts into a file name.
Second(t) == t \div TicksPerSecond

\* _stop_video_segment and the audio loop emit the path of the segment; written: the
\* file holds what the producer meant to write into it.
\* The slots of the pipeline that are called through the processing thread's queue.
Slots == {"start", "stop", "process_audio", "process_video"}

\* The processing thread as started at launch.  queue: the calls posted to it and not
\* yet made, each with the slot, the number of the post, and whether the poster is
\* blocked until the slot has returned; active: the calls being made; handled: history
\* of the calls that returned; quit: quit() was called; finished: exec() has returned.
NewLoop ==
    [queue |-> <<>>, active |-> {}, handled |-> <<>>, posted |-> 0, quit |-> FALSE,
     finished |-> FALSE]

\* A signal emitted in another thread, or invokeMethod, posts the call to the thread the
\* pipeline lives in, behind the calls posted before.
Post(l, slot, blocking) ==
    [l EXCEPT !.queue = Append(@, [slot |-> slot, seq |-> l.posted + 1, blocking |-> blocking]),
              !.posted = @ + 1]

Emit(kind, second, written) == Append(emitted, [kind |-> kind, path |-> second, written |-> written])

\* ScreenCapture as constructed.  writer: _video_writer is set; path, since: the second
\* in _current_video_path and _segment_start_time; good: the writer opened and took
\* every frame written so far.
NewScreen(mode, segment) ==
    [running |-> FALSE, loops |-> 0, writer |-> FALSE, capture_mode |-> mode,
     video_segment_sec |-> segment, path |-> 0, since |-> 0, good |-> TRUE,
     change_threshold |-> 1, previous |-> NoFrame, shots |-> <<>>, open |-> 0]

\* A variant of _stop_video_segment that lets go of the writer without releasing it.
DropWriter(sc) == [sc EXCEPT !.writer = FALSE]

\* _stop_video_segment: the writer is released and _video_writer set to None.  open:
\* history of the writers made and not released.
ReleaseWriter(sc) == [sc EXCEPT !.writer = FALSE, !.open = @ - 1]

\* _frame_difference_ratio, in units of 1/MaxPixel: the whole range if the shapes
\* differ, else the mean absolute difference of the pixels.
FrameDifferenceRatio(a, b) ==
    IF a.shape # b.shape THEN MaxPixel
    ELSE IF a.level >= b.level THEN a.level - b.level ELSE b.level - a.level

\* _should_save: TRUE if there is no previous frame, else whether the frame differs
\* from it by the threshold at least.
ShouldSave(frame, previous, change_threshold) ==
    IF previous = NoFrame THEN TRUE
    ELSE FrameDifferenceRatio(frame, previous) >= change_threshold

\* A variant in which every grabbed frame becomes the frame to compare with.
PreviousFrameEveryPass(previous, frame, saved) == frame

\* _previous_frame after a pass: the frame if it was saved, else as it was.
PreviousFrame(previous, frame, saved) == IF saved THEN frame ELSE previous

\* A pass of the loop in still mode over a grabbed frame.  shots: history of the frames
\* grabbed, each with whether it was saved.
StillPass(sc, frame) ==
    LET saved == ShouldSave(frame, sc.previous, sc.change_threshold)
    IN [sc EXCEPT !.previous = PreviousFrame(@, frame, saved),
                  !.shots = Append(@, [frame |-> frame, saved |-> saved])]

\* ScreenCapture.start(): sets _running and enters the capture loop; it tests nothing first.
ScreenStart ==
    /\ screen.loops < MaxLoops
    /\ screen' = [screen EXCEPT !.running = TRUE, !.loops = @ + 1]

\* start() called by whatever thread.
screen_start ==
    /\ ScreenStart
    /\ UNCHANGED <<store, calls, extraction, inference, scheduler, audio, tracker, wiring>>

\* One pass of a capture loop with _running set.  In still mode the grabbed frame is
\* saved if it should be.  In video mode: a writer is made if
\* there is none, named by the current second, whether it opens or not; the frame is
\* written; when video_segment_sec has passed since the segment's start the writer is
\* released and the path emitted.
screen_iteration ==
    /\ screen.loops > 0
    /\ screen.running
    /\ Len(emitted) < MaxEmitted
    /\ IF screen.capture_mode # "video"
       THEN /\ Len(screen.shots) < MaxShots
            /\ \E frame \in Frames : screen' = StillPass(screen, frame)
            /\ UNCHANGED <<emitted, loop>>
       ELSE \E opened \in BOOLEAN :
              LET seg == IF screen.writer THEN screen
                         ELSE [screen EXCEPT !.writer = TRUE, !.path = Second(ticks),
                                             !.since = ticks, !.good = opened,
                                             !.open = @ + 1]
              IN IF ticks - seg.since >= seg.video_segment_sec
                 THEN /\ screen' = ReleaseWriter(seg)
                      /\ emitted' = Emit("video", seg.path, seg.good)
                      /\ loop' = Post(loop, "process_video", FALSE)
                 ELSE /\ screen' = seg
                      /\ UNCHANGED <<emitted, loop>>
    /\ UNCHANGED <<store, calls, extraction, inference, scheduler, audio, tracker, window, ticks, eventlog>>

\* The slot a producer thread called returns: the thread goes on to its event loop.
ThreadReturns(w, k) ==
    IF w.thread[k] = "in start" THEN [w EXCEPT !.thread[k] = "exec"] ELSE w

\* How a capture loop ends: it finds _running clear, or the grab raises, or the write of
\* a frame into the open writer raises.
ScreenExits == {"not running", "grab raised", "write raised"}

\* A capture loop ends: the finally releases the open writer and emits its path, and
\* clears _running.
ScreenLoopExit(cause) ==
    /\ screen.loops > 0
    /\ cause = "not running" => ~screen.running
    /\ cause = "write raised" => screen.writer
    /\ screen' = [(IF screen.writer THEN ReleaseWriter(screen) ELSE screen)
                      EXCEPT !.running = FALSE, !.loops = @ - 1]
    /\ emitted' = IF screen.writer
                  THEN Emit("video", screen.path, screen.good /\ cause # "write raised")
                  ELSE emitted
    /\ loop' = IF screen.writer THEN Post(loop, "process_video", FALSE) ELSE loop
    /\ window' = ThreadReturns(window, "screen")
    /\ UNCHANGED <<store, calls, extraction, inference, scheduler, audio, tracker, ticks, eventlog>>

screen_loop_exit == \E cause \in ScreenExits : ScreenLoopExit(cause)

\* ScreenCapture.stop().
ScreenStop == screen' = [screen EXCEPT !.running = FALSE]

screen_stop ==
    /\ ScreenStop
    /\ UNCHANGED <<store, calls, extraction, inference, scheduler, audio, tracker, wiring>>

\* AudioCapture as constructed.  stream is what _stream refers to: "none", a stream that
\* is "active", or one that was made and did not start ("inactive"); streams counts the
\* input streams started and not closed.
\* buffered: the blocks in the segment being gathered; heard: the tick up to which the
\* loop has read the blocks its streams delivered, a block being a tick of sound.
NewAudio(segment) ==
    [running |-> FALSE, loops |-> 0, stream |-> "none", streams |-> 0, sentinels |-> 0,
     segment_seconds |-> segment, buffered |-> 0, heard |-> 0,
     use_vad |-> TRUE, vad |-> FALSE, silent |-> 0]

\* _contains_voice: TRUE when there is no detector, else what the detector finds.
ContainsVoice(vad, speech) == IF ~vad THEN TRUE ELSE speech

StreamFailures == {"none", "InputStream", "stream.start"}

\* AudioCapture.start(): sets _running, makes an input stream, assigns it to _stream and
\* starts it, then enters the loop; it tests nothing first.  If the stream cannot be made
\* or started, _running is cleared and start() returns.
AudioStart ==
    /\ audio.loops < MaxLoops
    /\ audio.streams < MaxStreams
    /\ \E failure \in StreamFailures :
        audio' = IF failure = "InputStream" THEN [audio EXCEPT !.running = FALSE]
                 ELSE IF failure = "stream.start"
                 THEN [audio EXCEPT !.running = FALSE, !.stream = "inactive"]
                 ELSE [audio EXCEPT !.running = TRUE, !.stream = "active",
                                    !.streams = @ + 1, !.loops = @ + 1,
                                    !.buffered = 0, !.silent = 0,
                                    !.heard = IF audio.streams = 0 THEN ticks ELSE @]

\* start() called by whatever thread.
audio_start ==
    /\ AudioStart
    /\ UNCHANGED <<store, calls, extraction, inference, scheduler, screen, tracker, wiring>>

\* A loop reads a block, of speech or not, with _running set and adds it to the
\* segment; if there is a detector and it finds no voice the loop goes on to the next
\* block; else, when the segment has segment_seconds of sound it is written to a file
\* named by the current second, and the path is emitted if the write did not raise.
\* silent: history of the blocks without speech that are in the segment.
audio_block ==
    /\ audio.loops > 0
    /\ audio.running
    /\ audio.sentinels = 0
    /\ audio.streams > 0
    /\ audio.heard < ticks
    /\ Len(emitted) < MaxEmitted
    /\ \E speech \in BOOLEAN :
        LET added == [audio EXCEPT !.heard = @ + 1, !.buffered = @ + 1,
                                   !.silent = IF speech THEN @ ELSE @ + 1]
        IN IF ContainsVoice(audio.vad, speech) /\ added.buffered >= audio.segment_seconds
           THEN \E write_raises \in BOOLEAN :
                  /\ audio' = [added EXCEPT !.buffered = 0, !.silent = 0]
                  /\ emitted' = IF write_raises THEN emitted
                                ELSE Emit("audio", Second(ticks), TRUE)
                  /\ loop' = IF write_raises THEN loop
                             ELSE Post(loop, "process_audio", FALSE)
           ELSE /\ audio' = added
                /\ UNCHANGED <<emitted, loop>>
    /\ UNCHANGED <<store, calls, extraction, inference, scheduler, screen, tracker, window, ticks, eventlog>>

\* Time passes.
clock_tick ==
    /\ ticks < MaxTicks
    /\ ticks' = ticks + 1
    /\ UNCHANGED <<store, calls, extraction, inference, scheduler, producers, window, emitted, loop,
                   eventlog>>

\* A loop ends: it read the None sentinel, or found _running clear after a read or a
\* timeout, or raised.  The finally stops and closes the stream _stream refers to, if
\* that one is active, and sets _stream to None.
AudioLoopExit(cause) ==
    /\ audio.loops > 0
    /\ cause = "sentinel" => audio.sentinels > 0
    /\ cause = "not running" => ~audio.running
    /\ audio' = [audio EXCEPT
                    !.loops = @ - 1,
                    !.sentinels = IF cause = "sentinel" THEN @ - 1 ELSE @,
                    !.streams = IF audio.stream = "active" THEN @ - 1 ELSE @,
                    !.stream = "none"]
    /\ window' = ThreadReturns(window, "audio")
    /\ UNCHANGED <<store, calls, extraction, inference, scheduler, screen, tracker, signals>>

audio_loop_exit == \E cause \in {"sentinel", "not running", "raised"} : AudioLoopExit(cause)

\* A variant of stop() that clears _running and puts nothing into the queue.
AudioStopFlagOnly ==
    /\ audio.sentinels < MaxSentinels
    /\ audio' = [audio EXCEPT !.running = FALSE]

\* AudioCapture.stop(): clears _running and puts the None sentinel into the queue.
AudioStop ==
    /\ audio.sentinels < MaxSentinels
    /\ audio' = [audio EXCEPT !.running = FALSE, !.sentinels = @ + 1]

audio_stop ==
    /\ AudioStop
    /\ UNCHANGED <<store, calls, extraction, inference, scheduler, screen, tracker, wiring>>

\* EventTracker as constructed.  attrs: _mouse_listener and _keyboard_listener are set;
\* listeners counts the listener pairs started and not stopped.
NewTracker == [running |-> FALSE, attrs |-> FALSE, listeners |-> 0]

\* EventTracker.stop() applied to a tracker.
TrackerStop(t) ==
    [running |-> FALSE, attrs |-> FALSE,
     listeners |-> IF t.attrs /\ t.listeners > 0 THEN t.listeners - 1 ELSE t.listeners]

\* EventTracker.start(): returns at once if _running is set; else sets it, stops listeners
\* left over, makes and starts a new pair; if that raises, clears _running and stops.
TrackerStart ==
    \E fails \in BOOLEAN :
        tracker' = IF tracker.running THEN tracker
                   ELSE LET t == IF tracker.attrs THEN TrackerStop(tracker)
                                 ELSE [tracker EXCEPT !.running = TRUE]
                        IN IF fails THEN TrackerStop(t)
                           ELSE [t EXCEPT !.attrs = TRUE, !.listeners = @ + 1]

\* start() called by whatever thread.
tracker_start ==
    /\ TrackerStart
    /\ UNCHANGED <<store, calls, extraction, inference, scheduler, screen, audio, wiring>>

tracker_stop ==
    /\ tracker' = TrackerStop(tracker)
    /\ UNCHANGED <<store, calls, extraction, inference, scheduler, screen, audio, wiring>>

\* ------------------------------------------------------------- recording
\* MainWindow.start_recording and stop_recording, run by the main thread, and the three
\* producer threads they start and wait for.
ProducerNames == {"screen", "audio", "tracker"}

\* A QThread: not started; started, its `started` signal not yet emitted; inside the slot
\* connected to `started`; in its event loop; finished.
ThreadStates == {"none", "started", "in start", "exec", "finished"}

\* The threads calling the window's WorkflowExecutor.
Callers == 1..MaxCallers

\* A caller outside execute_workflow.  at: "idle", "checked" once it has found _running
\* clear, "running" once it has set it; left, completed: the steps to make and made;
\* result: history of what the caller's last call returned.
NoExecution == [at |-> "idle", left |-> 0, completed |-> 0, result |-> "none"]

\* WorkflowExecutor as constructed.
NewExecutor == [running |-> FALSE, call |-> [t \in Callers |-> NoExecution]]

\* The window as constructed, with the longest segments configured.  quit: the threads
\* quit() was called on and that have not left their event loop; step: the step of
\* stop_recording to be made next, 0 outside it; exit: where cleanup_and_exit is; log,
\* exitlog, failure: history of the steps made by stop_recording and by cleanup_and_exit,
\* and of what the last start_recording met.
NewWindow ==
    [stop_btn |-> FALSE, thread |-> [k \in ProducerNames |-> "none"], quit |-> {},
     step |-> 0, log |-> <<>>, recordings |-> 0, failure |-> "none",
     exit |-> "none", exitlog |-> <<>>, use_vad |-> TRUE, executor |-> NewExecutor,
     video_segment_sec |-> MaxSegmentTicks, segment_seconds |-> MaxSegmentTicks]

\* What start_recording can meet: nothing; ScreenCapture() raising, its display grabber
\* not coming up; the pipeline being absent and not coming up on the second attempt.
RecordingFailures == {"none", "ScreenCapture", "pipeline"}

\* start_recording: returns if the Stop button is enabled.  It builds the three producers
\* and starts a thread for each, one after the other, then wires the pipeline and enables
\* the Stop button.  An exception at any point ends it there: it is shown, and
\* stop_recording is called, which returns at once, the Stop button not being enabled.
start_recording ==
    /\ ~window.stop_btn
    /\ window.step = 0
    /\ window.exit = "none"
    /\ window.recordings < MaxRecordings
    /\ \E failure \in RecordingFailures :
        IF failure = "ScreenCapture"
        THEN /\ window' = [window EXCEPT !.failure = failure, !.recordings = @ + 1]
             /\ UNCHANGED <<producers, emitted, loop>>
        ELSE /\ screen' = NewScreen("video", window.video_segment_sec)
             /\ audio' = [NewAudio(window.segment_seconds) EXCEPT !.use_vad = window.use_vad]
             /\ tracker' = NewTracker
             /\ window' = [window EXCEPT
                              !.stop_btn = (failure = "none"),
                              !.thread = [k \in ProducerNames |-> "started"],
                              !.quit = {},
                              !.log = <<>>,
                              !.recordings = @ + 1,
                              !.failure = failure]
             /\ emitted' = <<>>
             /\ loop' = IF failure = "none" THEN Post(loop, "start", FALSE) ELSE loop
    /\ UNCHANGED <<store, calls, extraction, inference, scheduler, ticks, eventlog>>

\* A started thread emits `started` from itself, which calls the producer's start() there.
screen_thread_run ==
    /\ window.thread["screen"] = "started"
    /\ ScreenStart
    /\ window' = [window EXCEPT !.thread["screen"] = "in start"]
    /\ UNCHANGED <<store, calls, extraction, inference, scheduler, signals, audio, tracker>>

audio_thread_run ==
    /\ window.thread["audio"] = "started"
    /\ AudioStart
    /\ window' = [window EXCEPT !.thread["audio"] =
                      IF audio'.loops > audio.loops THEN "in start" ELSE "exec"]
    /\ UNCHANGED <<store, calls, extraction, inference, scheduler, signals, screen, tracker>>

tracker_thread_run ==
    /\ window.thread["tracker"] = "started"
    /\ TrackerStart
    /\ window' = [window EXCEPT !.thread["tracker"] = "exec"]
    /\ UNCHANGED <<store, calls, extraction, inference, scheduler, signals, screen, audio>>

\* A thread that quit() was called on leaves its event loop when it is in it.
thread_finishes ==
    /\ \E k \in window.quit :
        /\ window.thread[k] = "exec"
        /\ window' = [window EXCEPT !.thread[k] = "finished", !.quit = @ \ {k}]
    /\ UNCHANGED <<store, calls, extraction, inference, scheduler, signals, producers>>

\* A variant of the sequence that waits for each producer as soon as it is signalled.
ShutdownStepsOneByOne ==
    << [do |-> "wait", who |-> "timer"],
       [do |-> "signal", who |-> "screen"], [do |-> "wait", who |-> "screen"],
       [do |-> "signal", who |-> "audio"], [do |-> "wait", who |-> "audio"],
       [do |-> "signal", who |-> "tracker"], [do |-> "wait", who |-> "tracker"],
       [do |-> "signal", who |-> "scheduler"] >>

\* stop_recording, step by step: the UI timer thread is stopped and waited for; each
\* producer's stop() is called and its thread told to quit; each thread is waited for,
\* three seconds at most; the pipeline's stop is posted.
ShutdownSteps ==
    << [do |-> "wait", who |-> "timer"],
       [do |-> "signal", who |-> "screen"], [do |-> "signal", who |-> "audio"],
       [do |-> "signal", who |-> "tracker"],
       [do |-> "wait", who |-> "screen"], [do |-> "wait", who |-> "audio"],
       [do |-> "wait", who |-> "tracker"],
       [do |-> "signal", who |-> "scheduler"] >>

\* The step stop_recording is at.
ShutdownAt(do, whos) ==
    /\ window.step \in 1..Len(ShutdownSteps)
    /\ ShutdownSteps[window.step].do = do
    /\ ShutdownSteps[window.step].who \in whos

\* The step is made, with what came of it.
ShutdownDone(w, clean) ==
    [w EXCEPT !.step = @ + 1,
              !.log = Append(@, [do |-> ShutdownSteps[w.step].do,
                                 who |-> ShutdownSteps[w.step].who, clean |-> clean])]

\* stop_recording is entered: it returns if the Stop button is not enabled.
stop_recording ==
    /\ window.stop_btn
    /\ window.step = 0
    /\ window.exit = "none"
    /\ window' = [window EXCEPT !.step = 1, !.log = <<>>]
    /\ UNCHANGED <<store, calls, extraction, inference, scheduler, signals, producers>>

\* timer_thread.stop(): the flag is cleared and the thread waited for, 1.1 s at most.
shutdown_timer ==
    /\ ShutdownAt("wait", {"timer"})
    /\ \E clean \in BOOLEAN : window' = ShutdownDone(window, clean)
    /\ UNCHANGED <<store, calls, extraction, inference, scheduler, signals, producers>>

\* A producer's stop() is called from the main thread and its thread is told to quit.
shutdown_signal ==
    /\ ShutdownAt("signal", ProducerNames)
    /\ LET k == ShutdownSteps[window.step].who
       IN /\ CASE k = "screen" -> ScreenStop /\ UNCHANGED <<audio, tracker>>
               [] k = "audio" -> AudioStop /\ UNCHANGED <<screen, tracker>>
               [] k = "tracker" -> tracker' = TrackerStop(tracker) /\ UNCHANGED <<screen, audio>>
          /\ window' = [ShutdownDone(window, TRUE) EXCEPT
                           !.quit = IF window.thread[k] = "finished" THEN @ ELSE @ \cup {k}]
    /\ UNCHANGED <<store, calls, extraction, inference, scheduler, signals>>

\* thread.wait(3000): it returns when the thread has finished or when the time is over.
shutdown_wait ==
    /\ ShutdownAt("wait", ProducerNames)
    /\ window' = ShutdownDone(window, window.thread[ShutdownSteps[window.step].who] = "finished")
    /\ UNCHANGED <<store, calls, extraction, inference, scheduler, signals, producers>>

\* The pipeline's stop() is posted to the processing thread.
shutdown_scheduler ==
    /\ ShutdownAt("signal", {"scheduler"})
    /\ window' = ShutdownDone(window, TRUE)
    /\ loop' = Post(loop, "stop", FALSE)
    /\ UNCHANGED <<store, calls, extraction, inference, scheduler, ticks, eventlog, emitted, producers>>

\* stop_recording returns: the buttons are set back.
shutdown_finish ==
    /\ window.step = Len(ShutdownSteps) + 1
    /\ window' = [window EXCEPT !.step = 0, !.stop_btn = FALSE]
    /\ UNCHANGED <<store, calls, extraction, inference, scheduler, signals, producers>>

\* ------------------------------------------------------------- workflow executor
\* execute_workflow is entered: it returns a failure if _running is set, before the try.
execute_workflow ==
    /\ \E t \in Callers, n \in 0..MaxSteps :
        /\ window.executor.call[t].at = "idle"
        /\ window' = [window EXCEPT !.executor.call[t] =
                          IF window.executor.running
                          THEN [NoExecution EXCEPT !.result = "refused"]
                          ELSE [NoExecution EXCEPT !.at = "checked", !.left = n]]
    /\ UNCHANGED <<store, calls, extraction, inference, scheduler, producers, signals>>

\* The caller that found _running clear sets it and enters the try.
execute_workflow_begins ==
    /\ \E t \in Callers :
        /\ window.executor.call[t].at = "checked"
        /\ window' = [window EXCEPT !.executor.running = TRUE,
                                    !.executor.call[t].at = "running"]
    /\ UNCHANGED <<store, calls, extraction, inference, scheduler, producers, signals>>

\* A step of the workflow is made and succeeds; the loop does not read _running.
execute_step ==
    /\ \E t \in Callers :
        /\ window.executor.call[t].at = "running"
        /\ window.executor.call[t].left > 0
        /\ window' = [window EXCEPT !.executor.call[t].left = @ - 1,
                                    !.executor.call[t].completed = @ + 1]
    /\ UNCHANGED <<store, calls, extraction, inference, scheduler, producers, signals>>

\* The execution returns: every step was made, or the next step failed or raised.  The
\* finally clears _running.
execute_workflow_returns ==
    /\ \E t \in Callers :
        /\ window.executor.call[t].at = "running"
        /\ window' = [window EXCEPT
                         !.executor.running = FALSE,
                         !.executor.call[t] =
                             [at |-> "idle", left |-> 0, completed |-> @.completed,
                              result |-> IF @.left = 0 THEN "success" ELSE "failed"]]
    /\ UNCHANGED <<store, calls, extraction, inference, scheduler, producers, signals>>

\* stop_execution(): clears _running.
stop_execution ==
    /\ window' = [window EXCEPT !.executor.running = FALSE]
    /\ UNCHANGED <<store, calls, extraction, inference, scheduler, producers, signals>>

\* ------------------------------------------------------------- event log
\* The event log before the first event: no line; delivered, failed: history of the
\* clicks and key presses the callbacks passed to _log, and of those whose write raised.
NewEventLog == [lines |-> <<>>, delivered |-> 0, failed |-> 0, pending |-> <<>>]

\* The listener threads of a tracker: the mouse listener's and the keyboard listener's.
MaxPending == 2

\* What the listeners call the tracker's callbacks with.
InputEvents == {"button pressed", "button released", "key pressed"}

\* The window in front: none that can be asked for (no win32gui), or an editor's.
Foreground == {"", "editor"}

\* The entry _log builds.
Entry(event_type, fg) ==
    [timestamp |-> Second(ticks), event_type |-> event_type, window |-> fg,
     app |-> fg, details |-> event_type]

\* A variant that opens the log for writing.
WriteLine(lines, entry) == <<entry>>

\* open("a") and write: the entry goes behind the lines there are.
AppendLine(lines, entry) == Append(lines, entry)

\* A listener of the tracker calls on_click or on_press: nothing if _running is clear or
\* the button was released; else _log appends the entry to the log, and if opening or
\* writing raises the error is logged and the event is gone.
input_event ==
    /\ tracker.listeners > 0
    /\ eventlog.delivered < MaxInputs
    /\ \E input \in InputEvents, fg \in Foreground, write_raises \in BOOLEAN :
        IF ~tracker.running \/ input = "button released"
        THEN UNCHANGED eventlog
        ELSE LET event_type == IF input = "key pressed" THEN "key_press" ELSE "mouse_click"
             IN eventlog' =
                  [lines |-> IF write_raises THEN eventlog.lines
                             ELSE AppendLine(eventlog.lines, Entry(event_type, fg)),
                   delivered |-> eventlog.delivered + 1,
                   failed |-> eventlog.failed + (IF write_raises THEN 1 ELSE 0),
                   pending |-> eventlog.pending]
    /\ UNCHANGED <<store, calls, extraction, inference, scheduler, producers, window, ticks,
                   emitted, loop>>

\* The same call as its listener's thread makes it, in two steps that other threads can
\* come between.  First step: on_click or on_press, and then _log, find _running set and
\* _log builds the entry; pending holds the entries built and not yet written, one
\* listener thread at most being in each callback.
callback_enters ==
    /\ tracker.listeners > 0
    /\ Len(eventlog.pending) < MaxPending
    /\ eventlog.delivered + Len(eventlog.pending) < MaxInputs
    /\ \E input \in InputEvents, fg \in Foreground :
        IF ~tracker.running \/ input = "button released"
        THEN UNCHANGED eventlog
        ELSE LET event_type == IF input = "key pressed" THEN "key_press" ELSE "mouse_click"
             IN eventlog' = [eventlog EXCEPT !.pending = Append(@, Entry(event_type, fg))]
    /\ UNCHANGED <<store, calls, extraction, inference, scheduler, producers, window, ticks,
                   emitted, loop>>

\* Second step: the log is opened and the entry written, whatever _running is by now.
callback_writes ==
    /\ eventlog.pending # <<>>
    /\ \E write_raises \in BOOLEAN :
        eventlog' =
            [lines |-> IF write_raises THEN eventlog.lines
                       ELSE AppendLine(eventlog.lines, Head(eventlog.pending)),
             delivered |-> eventlog.delivered + 1,
             failed |-> eventlog.failed + (IF write_raises THEN 1 ELSE 0),
             pending |-> Tail(eventlog.pending)]
    /\ UNCHANGED <<store, calls, extraction, inference, scheduler, producers, window, ticks,
                   emitted, loop>>

\* ------------------------------------------------------------- processing thread
\* The calls of the queue the event loop can make next: the one posted first.  A variant
\* takes any.
QueueAny(queue) == DOMAIN queue

QueueHead(queue) == IF queue = <<>> THEN {} ELSE {1}

\* The queue without its i-th call.
Without(queue, i) == SubSeq(queue, 1, i - 1) \o SubSeq(queue, i + 1, Len(queue))

\* The event loop of the processing thread takes a posted call and enters the slot, when
\* no slot is running.  start() starts the timer and calls run_analysis unless the
\* timer is active; stop() stops the timer; the segment handlers are entered.
loop_dispatch ==
    /\ ~loop.finished
    /\ EventLoopIdle
    /\ \E i \in QueueHead(loop.queue) :
        LET e == loop.queue[i]
        IN /\ loop' = [loop EXCEPT !.queue = Without(@, i), !.active = @ \cup {e}]
           /\ CASE e.slot = "start" /\ ~timerActive ->
                      /\ runs < MaxStarts + periods
                      /\ timerActive' = TRUE
                      /\ due' = FALSE
                      /\ running' = running + 1
                      /\ runs' = runs + 1
                      /\ UNCHANGED periods
                [] e.slot = "stop" ->
                      /\ timerActive' = FALSE
                      /\ due' = FALSE
                      /\ UNCHANGED <<running, runs, periods>>
                [] OTHER -> UNCHANGED scheduler
    /\ UNCHANGED <<store, calls, extraction, inference, producers, window, ticks, eventlog, emitted>>

\* The slot that was entered returns, start() when its call of run_analysis has.
handler_returns ==
    /\ running = 0
    /\ \E e \in loop.active :
        loop' = [loop EXCEPT !.active = @ \ {e}, !.handled = Append(@, e)]
    /\ UNCHANGED <<store, calls, extraction, inference, scheduler, producers, window, ticks, eventlog,
                   emitted>>

\* exec() returns when quit() was called and the loop has control.
loop_finishes ==
    /\ loop.quit
    /\ ~loop.finished
    /\ EventLoopIdle
    /\ loop' = [loop EXCEPT !.finished = TRUE]
    /\ UNCHANGED <<store, calls, extraction, inference, scheduler, producers, window, ticks, eventlog,
                   emitted>>

\* ------------------------------------------------------------- application exit
\* Where cleanup_and_exit is: outside it; calling stop_recording through invokeMethod;
\* calling the pipeline's stop() through a blocking invokeMethod; blocked in that call;
\* at processing_thread.quit(); in processing_thread.wait(3000); at timer_thread.stop();
\* returned.
ExitStates ==
    {"none", "invoke stop_recording", "invoke stop", "blocked", "quit", "wait", "timer",
     "done"}

\* A step of cleanup_and_exit is made, with what came of it.
ExitDone(w, do, who, clean, next) ==
    [w EXCEPT !.exit = next, !.exitlog = Append(@, [do |-> do, who |-> who, clean |-> clean])]

\* cleanup_and_exit is entered by the main thread: if the Stop button is enabled it
\* goes on to stop the recording.
cleanup_and_exit ==
    /\ window.exit = "none"
    /\ window.step = 0
    /\ window' = [window EXCEPT !.exit = IF window.stop_btn THEN "invoke stop_recording"
                                         ELSE "invoke stop",
                                !.exitlog = <<>>]
    /\ UNCHANGED <<store, calls, extraction, inference, scheduler, signals, producers>>

\* invokeMethod(self, "stop_recording", BlockingQueuedConnection): stop_recording is not
\* declared a slot, the window's meta-object has no such method, and nothing is called.
exit_invoke_stop_recording ==
    /\ window.exit = "invoke stop_recording"
    /\ window' = ExitDone(window, "invoke", "stop_recording", FALSE, "invoke stop")
    /\ UNCHANGED <<store, calls, extraction, inference, scheduler, signals, producers>>

\* invokeMethod(processing_pipeline, "stop", BlockingQueuedConnection): the call is
\* posted to the processing thread and the main thread blocks.
exit_invoke_stop ==
    /\ window.exit = "invoke stop"
    /\ window' = [window EXCEPT !.exit = "blocked"]
    /\ loop' = Post(loop, "stop", TRUE)
    /\ UNCHANGED <<store, calls, extraction, inference, scheduler, ticks, eventlog, emitted, producers>>

\* The blocked call returns when the processing thread has made it.
exit_stop_returned ==
    /\ window.exit = "blocked"
    /\ \E i \in DOMAIN loop.handled : loop.handled[i].blocking
    /\ window' = ExitDone(window, "signal", "scheduler", TRUE, "quit")
    /\ UNCHANGED <<store, calls, extraction, inference, scheduler, signals, producers>>

\* processing_thread.quit().
exit_quit ==
    /\ window.exit = "quit"
    /\ window' = [window EXCEPT !.exit = "wait"]
    /\ loop' = [loop EXCEPT !.quit = TRUE]
    /\ UNCHANGED <<store, calls, extraction, inference, scheduler, ticks, eventlog, emitted, producers>>

\* processing_thread.wait(3000) returns: the thread has finished, or the time is over.
exit_wait ==
    /\ window.exit = "wait"
    /\ window' = ExitDone(window, "wait", "pipeline", loop.finished, "timer")
    /\ UNCHANGED <<store, calls, extraction, inference, scheduler, signals, producers>>

\* timer_thread.stop() if it is running, and cleanup_and_exit returns.
exit_timer ==
    /\ window.exit = "timer"
    /\ window' = ExitDone(window, "wait", "timer", TRUE, "done")
    /\ UNCHANGED <<store, calls, extraction, inference, scheduler, signals, producers>>

\* No recording has been started.
WiringIdle ==
    /\ window = NewWindow
    /\ ticks = 0
    /\ emitted = <<>>
    /\ loop = NewLoop
    /\ eventlog = NewEventLog

\* No producer has been started.
ProducersIdle ==
    /\ screen = NewScreen("images", MaxSegmentTicks)
    /\ audio = NewAudio(MaxSegmentTicks)
    /\ tracker = NewTracker

\* Nothing outside the store and the disk is in progress.
ControlIdle ==
    /\ extraction = NoExtraction
    /\ inference = NoInference
    /\ SchedulerIdle
    /\ ProducersIdle
    /\ WiringIdle
    /\ calls = {}

\* ------------------------------------------------------------- initial stores
\* A store as the segment processor and the event sensor leave it: up to maxCaps capture
\* rows, each with or without its file still on disk, an orphan file, a file outside the
\* capture directories, and up to maxEvents event rows.
InitStore(maxCaps, sizes, fileChoices, orphanDays, maxEvents) ==
    /\ now = MaxDay
    /\ \E n \in 0..maxCaps :
         \E ts \in [1..n -> Days], sz \in [1..n -> sizes], hasFile \in [1..n -> fileChoices] :
            /\ captures = {NewCapture(i, ts[i], "screen", i, sz[i], "") : i \in 1..n}
            /\ \E orphan \in SUBSET {PlainFile(OrphanPath, d, 1, TRUE) : d \in orphanDays} :
                 /\ Cardinality(orphan) <= 1
                 /\ files = {PlainFile(i, ts[i], sz[i], TRUE) : i \in {j \in 1..n : hasFile[j]}}
                            \cup orphan \cup {PlainFile(OutsidePath, 0, 1, FALSE)}
    /\ \E m \in 0..maxEvents :
         \E ts \in [1..m -> Days] : events = {NewEvent(i, ts[i]) : i \in 1..m}
    /\ workflows = {}
    /\ detected = <<>>
    /\ finalized = {}
    /\ last = NoCall
    /\ tombstone = {}
    /\ ControlIdle

\* Stores whose files vary, stores whose events vary, and small stores with both.
InitRetention ==
    /\ \/ InitStore(MaxCaptures, {1}, BOOLEAN, Days, 0)
       \/ InitStore(MaxCaptures, {1}, {FALSE}, {}, MaxEvents)
       \/ InitStore(1, {1}, BOOLEAN, {}, MaxEvents)
    /\ pc = "idle"
    /\ settings = NoSettings

NextRetention ==
    \/ cleanup_old_files
    \/ cleanup_size_limit
    \/ physical_cleanup_deleted_records
    \/ run_analysis
    \/ refresh_timeline

SpecRetention == InitRetention /\ [][NextRetention]_vars

\* The age pass alone, called at any time.
InitAge ==
    /\ InitStore(MaxCaptures, {1}, BOOLEAN, Days, 0)
    /\ pc = "idle"
    /\ settings = NoSettings

NextAge ==
    \/ cleanup_old_files
    \/ Tick

SpecAge == InitAge /\ [][NextAge]_vars

\* Stores whose artifact sizes vary, for the size pass.
InitSize ==
    /\ InitStore(MaxCaptures, SizeValues, {FALSE}, {}, 0)
    /\ pc = "idle"
    /\ settings = NoSettings

NextSize ==
    \/ cleanup_size_limit
    \/ cleanup_old_files

SpecSize == InitSize /\ [][NextSize]_vars

\* main()'s startup sweep over any store, with any settings.
InitSweep ==
    /\ \/ InitStore(MaxCaptures, {1}, BOOLEAN, {}, 0)
       \/ InitStore(1, {1}, {FALSE}, {}, MaxEvents)
    /\ pc = "age"
    /\ settings \in [max_keep_days : Days, max_bytes : 0..MaxBytes, retention_days : Days]

NextSweep ==
    \/ main_cleanup_old_files
    \/ main_cleanup_size_limit
    \/ main_physical_cleanup

SpecSweep == InitSweep /\ [][NextSweep]_vars

\* The producers and the segment processor over an empty store.
InitPipeline ==
    /\ now = MaxDay
    /\ captures = {}
    /\ events = {}
    /\ files = {}
    /\ workflows = {}
    /\ detected = <<>>
    /\ pc = "idle"
    /\ settings = NoSettings
    /\ finalized = {}
    /\ last = NoCall
    /\ tombstone = {}
    /\ ControlIdle

NextPipeline ==
    \/ finalize_audio_segment
    \/ finalize_video_segment
    \/ process_audio
    \/ process_video

SpecPipeline == InitPipeline /\ [][NextPipeline]_vars

\* The store and the disk with nothing in them.
InitEmpty ==
    /\ now = MaxDay
    /\ captures = {}
    /\ events = {}
    /\ files = {}
    /\ workflows = {}
    /\ detected = <<>>
    /\ pc = "idle"
    /\ settings = NoSettings
    /\ finalized = {}
    /\ last = NoCall
    /\ tombstone = {}

\* Timestamp extraction on any name, written under any offset, read under any offset.
InitTimestamp ==
    /\ InitEmpty
    /\ calls = {}
    /\ inference = NoInference
    /\ SchedulerIdle
    /\ ProducersIdle
    /\ WiringIdle
    /\ extraction \in [filename : Names, name_offset : UtcOffsets, local_offset : UtcOffsets,
                       result : {NotExtracted}]

NextTimestamp == extract_timestamp

SpecTimestamp == InitTimestamp /\ [][NextTimestamp]_vars

\* analyze_workflow with the model loaded or not, on any response.
InitInference ==
    /\ InitEmpty
    /\ calls = {}
    /\ extraction = NoExtraction
    /\ SchedulerIdle
    /\ ProducersIdle
    /\ WiringIdle
    /\ inference \in [loaded : BOOLEAN, response : Responses, result : {NotAnalyzed}]

NextInference == analyze_workflow

SpecInference == InitInference /\ [][NextInference]_vars

\* The three producers, started and stopped in any order, in either capture mode.
InitProducers ==
    /\ InitEmpty
    /\ calls = {}
    /\ extraction = NoExtraction
    /\ inference = NoInference
    /\ SchedulerIdle
    /\ screen \in {NewScreen(mode, MaxSegmentTicks) : mode \in CaptureModes}
    /\ audio = NewAudio(MaxSegmentTicks)
    /\ tracker = NewTracker
    /\ WiringIdle

NextProducers ==
    \/ screen_start
    \/ screen_iteration
    \/ screen_loop_exit
    \/ screen_stop
    \/ audio_start
    \/ audio_loop_exit
    \/ audio_stop
    \/ tracker_start
    \/ tracker_stop

SpecProducers == InitProducers /\ [][NextProducers]_vars

\* A recording session: the window's start and stop, and the producer threads.
InitRecording ==
    /\ InitEmpty
    /\ ControlIdle

NextRecording ==
    \/ start_recording
    \/ screen_thread_run
    \/ audio_thread_run
    \/ tracker_thread_run
    \/ screen_iteration
    \/ screen_loop_exit
    \/ audio_loop_exit
    \/ thread_finishes
    \/ stop_recording
    \/ shutdown_timer
    \/ shutdown_signal
    \/ shutdown_wait
    \/ shutdown_scheduler
    \/ shutdown_finish

SpecRecording == InitRecording /\ [][NextRecording]_vars

\* The main thread goes on through stop_recording, a started thread gets to run, a loop
\* that can see it has to end does so, and a thread told to quit leaves its event loop.
SpecRecordingFair ==
    /\ SpecRecording
    /\ WF_vars(shutdown_timer \/ shutdown_signal \/ shutdown_wait \/ shutdown_scheduler
               \/ shutdown_finish)
    /\ WF_vars(screen_thread_run \/ audio_thread_run \/ tracker_thread_run)
    /\ WF_vars(AudioLoopExit("sentinel") \/ AudioLoopExit("not running"))
    /\ WF_vars(ScreenLoopExit("not running"))
    /\ WF_vars(thread_finishes)

\* Recordings are started and stopped, the processing thread makes the calls posted to
\* it, and the application exits.
InitExit == InitEmpty /\ ControlIdle

NextExit ==
    \/ start_recording
    \/ screen_thread_run
    \/ audio_thread_run
    \/ tracker_thread_run
    \/ screen_loop_exit
    \/ audio_loop_exit
    \/ thread_finishes
    \/ stop_recording
    \/ shutdown_timer
    \/ shutdown_signal
    \/ shutdown_wait
    \/ shutdown_scheduler
    \/ shutdown_finish
    \/ loop_dispatch
    \/ handler_returns
    \/ analysis_returns
    \/ loop_finishes
    \/ cleanup_and_exit
    \/ exit_invoke_stop_recording
    \/ exit_invoke_stop
    \/ exit_stop_returned
    \/ exit_quit
    \/ exit_wait
    \/ exit_timer

SpecExit == InitExit /\ [][NextExit]_vars

\* The main thread goes on through stop_recording and cleanup_and_exit, the started
\* threads get to run, and the event loops take what is posted to them when they have
\* control.  Nothing is assumed of how long a slot of the pipeline takes to return.
SpecExitFair ==
    /\ SpecExit
    /\ WF_vars(shutdown_timer \/ shutdown_signal \/ shutdown_wait \/ shutdown_scheduler
               \/ shutdown_finish)
    /\ WF_vars(exit_invoke_stop_recording \/ exit_invoke_stop \/ exit_stop_returned
               \/ exit_quit \/ exit_wait \/ exit_timer)
    /\ WF_vars(screen_thread_run \/ audio_thread_run \/ tracker_thread_run)
    /\ WF_vars(thread_finishes)
    /\ WF_vars(loop_dispatch)
    /\ WF_vars(loop_finishes)

\* The producers of a recording emit while the processing thread makes the calls posted
\* to it and its timer runs; video segments are cut at every pass, audio segments every
\* tick; it is the last recording, and the clock has one tick to go.
InitDelivery ==
    /\ InitEmpty
    /\ calls = {}
    /\ extraction = NoExtraction
    /\ inference = NoInference
    /\ SchedulerIdle
    /\ ProducersIdle
    /\ window = [NewWindow EXCEPT !.video_segment_sec = 0, !.segment_seconds = 1,
                                  !.recordings = MaxRecordings - 1]
    /\ ticks = MaxTicks - 1
    /\ emitted = <<>>
    /\ loop = NewLoop
    /\ eventlog = NewEventLog

NextDelivery ==
    \/ start_recording
    \/ screen_thread_run
    \/ audio_thread_run
    \/ screen_iteration
    \/ audio_block
    \/ clock_tick
    \/ loop_dispatch
    \/ handler_returns
    \/ analysis_returns
    \/ period_elapses
    \/ timer_timeout

SpecDelivery == InitDelivery /\ [][NextDelivery]_vars

\* Recordings are started and stopped while the user clicks and types.
InitEvents ==
    /\ InitEmpty
    /\ calls = {}
    /\ extraction = NoExtraction
    /\ inference = NoInference
    /\ SchedulerIdle
    /\ ProducersIdle
    /\ window = NewWindow
    /\ ticks = MaxTicks - 2
    /\ emitted = <<>>
    /\ loop = NewLoop
    /\ eventlog = NewEventLog

NextEvents ==
    \/ start_recording
    \/ tracker_thread_run
    \/ input_event
    \/ clock_tick
    \/ thread_finishes
    \/ stop_recording
    \/ shutdown_timer
    \/ shutdown_signal
    \/ shutdown_wait
    \/ shutdown_scheduler
    \/ shutdown_finish

SpecEvents == InitEvents /\ [][NextEvents]_vars

\* One tracker, started and stopped by one thread while its listeners' threads make
\* their callbacks.
InitCallbacks == InitEmpty /\ ControlIdle

NextCallbacks ==
    \/ tracker_start
    \/ tracker_stop
    \/ callback_enters
    \/ callback_writes
    \/ clock_tick

SpecCallbacks == InitCallbacks /\ [][NextCallbacks]_vars

\* The workflow executor and the threads that call it.
InitExecutor == InitEmpty /\ ControlIdle

NextExecutor ==
    \/ execute_workflow
    \/ execute_workflow_begins
    \/ execute_step
    \/ execute_workflow_returns
    \/ stop_execution

SpecExecutor == InitExecutor /\ [][NextExecutor]_vars

\* The audio producer of a recording, with the voice gate configured on or off, reads
\* blocks of speech and of silence while time passes.
InitAudio ==
    /\ InitEmpty
    /\ calls = {}
    /\ extraction = NoExtraction
    /\ inference = NoInference
    /\ SchedulerIdle
    /\ ProducersIdle
    /\ \E gate \in BOOLEAN, a \in SegmentTicks :
        window = [NewWindow EXCEPT !.use_vad = gate, !.segment_seconds = a]
    /\ ticks = 0
    /\ emitted = <<>>
    /\ loop = NewLoop
    /\ eventlog = NewEventLog

NextAudio ==
    \/ start_recording
    \/ audio_thread_run
    \/ audio_block
    \/ clock_tick
    \/ audio_loop_exit

SpecAudio == InitAudio /\ [][NextAudio]_vars

\* A screen producer in still mode, with any threshold, grabs frames.
InitStills ==
    /\ InitEmpty
    /\ calls = {}
    /\ extraction = NoExtraction
    /\ inference = NoInference
    /\ SchedulerIdle
    /\ \E t \in Thresholds :
        screen = [NewScreen("images", MaxSegmentTicks) EXCEPT !.change_threshold = t]
    /\ audio = NewAudio(MaxSegmentTicks)
    /\ tracker = NewTracker
    /\ WiringIdle

NextStills ==
    \/ screen_start
    \/ screen_iteration
    \/ screen_loop_exit
    \/ screen_stop

SpecStills == InitStills /\ [][NextStills]_vars

\* The screen producer of a recording, with any segment length, runs and is stopped
\* while time passes.
InitWriter ==
    /\ InitEmpty
    /\ calls = {}
    /\ extraction = NoExtraction
    /\ inference = NoInference
    /\ SchedulerIdle
    /\ ProducersIdle
    /\ \E v \in SegmentTicks : window = [NewWindow EXCEPT !.video_segment_sec = v]
    /\ ticks = 0
    /\ emitted = <<>>
    /\ loop = NewLoop
    /\ eventlog = NewEventLog

NextWriter ==
    \/ start_recording
    \/ screen_thread_run
    \/ screen_iteration
    \/ clock_tick
    \/ screen_loop_exit
    \/ screen_stop

SpecWriter == InitWriter /\ [][NextWriter]_vars

\* One recording with any configured segment lengths, while time passes.
InitSegments ==
    /\ InitEmpty
    /\ calls = {}
    /\ extraction = NoExtraction
    /\ inference = NoInference
    /\ SchedulerIdle
    /\ ProducersIdle
    /\ \E v, a \in SegmentTicks :
        window = [NewWindow EXCEPT !.video_segment_sec = v, !.segment_seconds = a]
    /\ ticks = 0
    /\ emitted = <<>>
    /\ loop = NewLoop
    /\ eventlog = NewEventLog

NextSegments ==
    \/ start_recording
    \/ screen_thread_run
    \/ audio_thread_run
    \/ screen_iteration
    \/ audio_block
    \/ clock_tick
    \/ screen_loop_exit
    \/ audio_loop_exit

SpecSegments == InitSegments /\ [][NextSegments]_vars

\* The analysis scheduler over a store of recent captures and events.
InitScheduler ==
    /\ InitStore(1, {1}, {FALSE}, {}, MaxEvents)
    /\ pc = "idle"
    /\ settings = NoSettings

NextScheduler ==
    \/ pipeline_start
    \/ pipeline_stop
    \/ period_elapses
    \/ timer_timeout
    \/ analysis_returns

SpecScheduler == InitScheduler /\ [][NextScheduler]_vars

\* The event loop keeps delivering, and a run that was called returns.
SpecSchedulerFair ==
    /\ SpecScheduler
    /\ WF_vars(timer_timeout)
    /\ WF_vars(analysis_returns)

\* ============================================================= properties

\* C1: a run of the hard-delete pass removes no Capture or Event row that is not
\* soft-deleted, and unlinks the file of no Capture row that is not soft-deleted.
C1_HardDeleteSparesLiveRows ==
    [][physical_cleanup_deleted_records =>
          /\ NonDeleted(captures) \subseteq captures'
          /\ NonDeleted(events) \subseteq events'
          /\ FilesOf(files, NonDeleted(captures)) \subseteq files']_vars

\* The hard-delete pass has run over a store holding a live capture and a live event,
\* both older than its retention cutoff, the capture's file on disk.
C1_Witness ==
    /\ last.op = "hard"
    /\ \E r \in captures : /\ ~r.deleted
                           /\ r.timestamp < last.at - last.arg
                           /\ r.file_path \in Paths(files)
    /\ \E e \in events : ~e.deleted /\ e.timestamp < last.at - last.arg

\* C3: after the size pass returns, the size_bytes of the non-deleted captures sum to at
\* most max_bytes, for every max_bytes >= 0.
C3_SizeWithinBudget ==
    last.op = "size" => SumSizes(NonDeleted(captures)) <= last.arg

\* C4: the rows the size pass marks are the shortest oldest-first prefix of the
\* non-deleted captures whose marking brings the total within max_bytes: nothing is
\* marked when the store is within budget, every marked row is no newer than every row
\* left, the total left is within budget, and it was not before the last row was marked.
C4_ShortestOldestPrefix ==
    last.op = "size" =>
        LET marked == {r \in captures : <<"capture", r.id>> \in last.marked}
            left == NonDeleted(captures)
        IN  /\ SumSizes(left) <= last.arg
            /\ \A m \in marked : \A r \in left : m.timestamp <= r.timestamp
            /\ \A m \in marked :
                 (\A n \in marked : n.timestamp <= m.timestamp) =>
                     SumSizes(left) + m.size_bytes > last.arg

\* C5 (as stated): an age pass that directly repeats an age pass (same argument, same
\* clock, nothing written in between) marks no row and removes no file.
C5_SecondRunDoesNothing ==
    (last.op = "age" /\ last.again) => (last.marked = {} /\ last.unlinked = {})

\* C5 (amended): an age pass that directly repeats an age pass marks no row, and removes
\* no file other than those whose removal raised in the first run.
C5_SecondRunOnlyRetries ==
    (last.op = "age" /\ last.again) =>
        (last.marked = {} /\ last.unlinked \subseteq last.prevFailed)

\* A repeated age pass whose first run removed a file and failed to remove another, which
\* the second run then removed.
C5_Witness ==
    /\ last.op = "age"
    /\ last.again
    /\ last.prevUnlinked # {}
    /\ last.prevFailed # {}
    /\ last.unlinked = last.prevFailed

\* C6: once the age pass and then the size pass have run, every Capture and Event row
\* older than max_age_days is soft-deleted, and every row the age pass marked is still
\* marked.
C6_OldRowsSoftDeleted ==
    pc = "hard" =>
        /\ \A r \in captures : r.timestamp < now - settings.max_keep_days => r.deleted
        /\ \A e \in events : e.timestamp < now - settings.max_keep_days => e.deleted
        /\ \A t \in tombstone : \A r \in captures : (t[1] = "capture" /\ t[2] = r.id) => r.deleted

\* C7 (as stated): the age pass removes exactly the files under the capture directories
\* whose mtime is before the cutoff: every such file, and no other.
C7_ExactlyOldFilesRemoved ==
    [][cleanup_old_files =>
          files \ files' = {f \in files : f.indir /\ f.mtime < now - last'.arg}]_vars

\* C7 (amended): the age pass removes exactly the files under the capture directories
\* whose mtime is before the cutoff and whose removal does not raise; a removal raises only
\* for such a file.  This does not depend on a row naming the file nor on the marking.
C7_ExactlyOldFilesThatUnlink ==
    [][cleanup_old_files =>
          /\ files \ files' = {f \in files : /\ f.indir
                                             /\ f.mtime < now - last'.arg
                                             /\ f.path \notin last'.failed}
          /\ \A p \in last'.failed :
               \E f \in files : f.path = p /\ f.indir /\ f.mtime < now - last'.arg
          /\ last'.unlinked = Paths(files \ files')]_vars

\* The age pass has run, its marking raised, it removed an old file a row names and an
\* old file no row names, and left a file no older than the cutoff and the file outside.
C7_Witness ==
    /\ last.op = "age"
    /\ last.raised
    /\ OrphanPath \in last.unlinked
    /\ \E r \in captures : r.file_path \in last.unlinked
    /\ \E f \in files : f.indir /\ f.mtime >= last.at - last.arg
    /\ \E f \in files : ~f.indir /\ f.mtime < last.at - last.arg

C9_OneRecordPerArtifact ==
    /\ \A k \in finalized : Cardinality({r \in captures : r.file_path = k[1]}) <= 1
    /\ (last.op \in {"process_audio", "process_video"}
            /\ last.unlinked = {} /\ last.failed = {}) => last.rows = {}

\* C10: a handler run on an artifact that exists and opens commits exactly one Capture row
\* for it, of the matching kind, with the artifact's size and what was extracted, and the
\* file is gone afterwards; also when nothing was extracted.  (Stated for the runs in which
\* neither the insert nor the unlink raises.)
C10_OneRecordPerNotification ==
    [][\A f \in files :
          (/\ process_audio \/ process_video
           /\ last'.arg = f.path
           /\ f.openable
           /\ ~last'.raised
           /\ last'.failed = {})
          => /\ Cardinality(captures' \ captures) = 1
             /\ \A r \in captures' \ captures :
                  /\ r.file_path = f.path
                  /\ r.size_bytes = f.size
                  /\ r.metadata = f.text
                  /\ r.type = (IF <<f.path, "audio">> \in finalized THEN "audio" ELSE "screen")
             /\ f \notin files']_vars

\* A name the producers write: a prefix of letters, a date digit and a time digit, each
\* after a "_", then nothing, an extension or a further "_" field.
ProducerName(filename) ==
    \E k \in 1..Len(filename) :
        /\ \A i \in 1..k : filename[i] = "a"
        /\ Len(filename) >= k + 4
        /\ filename[k + 1] = "_" /\ filename[k + 2] \in Digits
        /\ filename[k + 3] = "_" /\ filename[k + 4] \in Digits
        /\ Len(filename) > k + 4 => filename[k + 5] \in {".", "_"}

\* The instant such a name encodes: its wall-clock time, in the zone offset in force when
\* the producer wrote the name.
EncodedInstant(filename, name_offset) ==
    LET k == CHOOSE j \in 1..Len(filename) : filename[j] = "_"
    IN 2 * DigitValue(filename[k + 1]) + DigitValue(filename[k + 3]) - name_offset

\* A name the claim calls not of the form: fewer than three "_"-separated parts, or a
\* character that is no digit in the date part or in the time part before the extension.
MalformedName(filename) ==
    LET parts == Split(filename, "_")
    IN \/ Len(parts) < 3
       \/ \E i \in 1..Len(parts[2]) : parts[2][i] \notin Digits
       \/ LET time == Split(parts[3], ".")[1]
          IN \E i \in 1..Len(time) : time[i] \notin Digits

\* C13: for every file name of the form kind_date_time followed by an extension or a
\* further field, the extracted timestamp is exactly the instant the name encodes; for
\* every name with fewer than three parts or a non-numeric date or time part, the
\* extraction returns the current time.
C13_TimestampRoundTrip ==
    extraction.result # NotExtracted =>
        /\ ProducerName(extraction.filename) =>
              extraction.result = [from |-> "name",
                                   utc |-> EncodedInstant(extraction.filename,
                                                          extraction.name_offset)]
        /\ MalformedName(extraction.filename) => extraction.result.from = "now"

\* C11 (as stated): process_video handed a container that does not open deletes the file,
\* commits no row and runs neither the frame read nor OCR; and a later notification for
\* the path, the file gone, does nothing.
C11_UnopenableDeleted ==
    [][process_video =>
          /\ \A f \in files :
               (last'.arg = f.path /\ ~f.openable) =>
                   /\ f \notin files'
                   /\ captures' = captures
                   /\ last'.rows = {}
                   /\ calls' \cap {"read", "ocr.extract", "commit"} = {}
          /\ (last'.arg \notin Paths(files)) =>
                 (calls' = {} /\ captures' = captures /\ files' = files)]_vars

\* C11 (amended): as stated, except that the file stays when its unlink raises.
C11_UnopenableDeletedUnlessUnlinkFails ==
    [][process_video =>
          /\ \A f \in files :
               (last'.arg = f.path /\ ~f.openable) =>
                   /\ (f \notin files' \/ last'.failed = {f.path})
                   /\ (f \in files' => files' = files)
                   /\ captures' = captures
                   /\ last'.rows = {}
                   /\ calls' \cap {"read", "ocr.extract", "commit"} = {}
          /\ (last'.arg \notin Paths(files)) =>
                 (calls' = {} /\ captures' = captures /\ files' = files)]_vars

\* process_video has opened a container in vain and unlinked it: no row, no file.
C11_Witness ==
    /\ last.op = "process_video"
    /\ calls = {"VideoCapture", "unlink"}
    /\ last.unlinked = {last.arg}
    /\ last.arg \notin Paths(files)
    /\ \A r \in captures : r.file_path # last.arg

\* C12: a handler run whose insert was committed and whose unlink then raised leaves the
\* committed row in the store, every earlier row as it was, and the file in place; and
\* no handler run ever changes or removes a row committed before it.
C12_DeletionFailureKeepsRecord ==
    [][(process_audio \/ process_video) =>
          /\ captures \subseteq captures'
          /\ (last'.failed # {} /\ "commit" \in calls' /\ ~last'.raised) =>
                 /\ last'.rows # {}
                 /\ last'.rows \subseteq captures'
                 /\ captures' \ captures = last'.rows
                 /\ files' = files]_vars

\* A row whose file is still on disk (its unlink raised after the commit), and a later
\* notification for another artifact processed to a committed row.
C12_Witness ==
    \E r \in captures :
        /\ r.file_path \in Paths(files)
        /\ last.op \in {"process_audio", "process_video"}
        /\ last.arg # r.file_path
        /\ last.rows # {}
        /\ last.rows \subseteq captures

\* C18: when the model is not loaded, or its output does not parse, or the parsed object
\* lacks a required key, analyze_workflow returns a result with no steps, is_repetitive
\* false and automation_potential low.
C18_DefaultOnBadOutput ==
    (/\ inference.result # NotAnalyzed
     /\ \/ ~inference.loaded
        \/ inference.response.kind # "object"
        \/ ~(RequiredKeys \subseteq DOMAIN inference.response.json))
    => /\ inference.result.steps = <<>>
       /\ inference.result.is_repetitive = FALSE
       /\ inference.result.automation_potential = "low"

\* C14: at no time are two calls of run_analysis in progress; a timer interval that
\* elapses during a run starts no second run beside it.
C14_SingleFlight == running <= 1

\* A run is in progress and the timer's interval has elapsed during it.
C14_Witness == running = 1 /\ due /\ timerActive

C16_FailedRunKeepsSchedule ==
    /\ [][(analysis_returns /\ last'.raised) =>
             /\ timerActive' = timerActive
             /\ running' = running - 1
             /\ <<captures, events, workflows, detected>>' = <<captures, events, workflows, detected>>]_vars
    /\ [](last.op = "analysis" /\ last.raised /\ timerActive /\ due =>
             <>(running > 0 \/ ~timerActive))

\* A run raised, and the run before it, made with the same interval, had been made too:
\* the timer is still active after both.
C16_Witness ==
    /\ last.op = "analysis"
    /\ last.raised
    /\ last.again
    /\ timerActive
    /\ runs > 1
    /\ periods > 0

\* C20: for each of the three producers, start() called while the producer is running
\* changes nothing of it: no further loop, input stream, video writer or listener pair,
\* and the running one is left as it was.
C20_StartWhileRunningIsNoOp ==
    [][/\ (screen_start /\ screen.running /\ screen.loops > 0) => screen' = screen
       /\ (audio_start /\ audio.running /\ audio.loops > 0) => audio' = audio
       /\ (tracker_start /\ tracker.running) => tracker' = tracker]_vars

\* stop_recording has called the producer's stop() in the shutdown in progress or last made.
Signalled(k) ==
    \E i \in 1..Len(window.log) : window.log[i].do = "signal" /\ window.log[i].who = k

C22_OnlyFailedSensorDisabled ==
    /\ window.failure = "ScreenCapture" =>
           window.thread["audio"] # "none" /\ window.thread["tracker"] # "none"
    /\ audio.stream = "inactive" =>
           window.thread["screen"] # "none" /\ window.thread["tracker"] # "none"
    /\ (/\ window.stop_btn
        /\ window.step = 0
        /\ window.thread["tracker"] = "exec"
        /\ ~tracker.running) =>
           window.thread["screen"] # "none" /\ window.thread["audio"] # "none"

\* C23: every segment-ready signal names a file that was written: a segment whose writer
\* did not open, or whose write raised, is not notified.
C23_NotifiedAfterFinalize ==
    \A i \in 1..Len(emitted) : emitted[i].written

\* C24: no two segment-ready signals of a recording name the same path, whatever segment
\* lengths are configured.
C24_DistinctPaths ==
    \A i, j \in 1..Len(emitted) :
        (i # j /\ emitted[i].kind = emitted[j].kind) => emitted[i].path # emitted[j].path

\* The positions in stop_recording's log of the steps of one kind made on the producers.
StepsOf(do) ==
    {i \in DOMAIN window.log : window.log[i].do = do /\ window.log[i].who \in ProducerNames}

\* C25 (as the code has it): in stop_recording every producer is signalled to stop, then
\* each producer thread is waited for with a deadline, then the scheduler timer is
\* signalled to stop: no wait on a producer comes before the signal of any producer, the
\* scheduler is signalled only after the three waits have ended, and stop_recording makes
\* no wait on the pipeline thread.
C25_SignalAllWaitEachThenScheduler ==
    /\ \A i \in StepsOf("signal"), j \in StepsOf("wait") : i < j
    /\ \A i \in DOMAIN window.log :
        window.log[i].who = "scheduler" =>
            /\ window.log[i].do = "signal"
            /\ {window.log[j].who : j \in StepsOf("signal")} = ProducerNames
            /\ {window.log[j].who : j \in {k \in StepsOf("wait") : k < i}} = ProducerNames
    /\ \A i \in DOMAIN window.log : window.log[i].who # "pipeline"

\* stop_recording has gone through all its steps, one of its waits having timed out.
C25_Witness ==
    /\ window.step = Len(ShutdownSteps) + 1
    /\ Len(window.log) = Len(ShutdownSteps)
    /\ \E i \in StepsOf("wait") : ~window.log[i].clean
    /\ \E i \in StepsOf("wait") : window.log[i].clean

\* C25 (as stated): the sequence ends with a wait on the pipeline thread, made after the
\* scheduler was signalled.
C25_ThenPipelineWaited ==
    window.step = Len(ShutdownSteps) + 1 =>
        \E i, j \in DOMAIN window.log :
            /\ i < j
            /\ window.log[i].who = "scheduler"
            /\ window.log[j].do = "wait"
            /\ window.log[j].who = "pipeline"

\* C26: shutdown always completes: stop_recording, once entered, returns, and
\* cleanup_and_exit, once entered, returns, however long the producer loops and the
\* slots of the pipeline take.
C26_ShutdownCompletes ==
    /\ (window.step > 0) ~> (window.step = 0)
    /\ (window.exit # "none") ~> (window.exit = "done")

\* C27: the pipeline runs one slot at a time to completion: no two calls posted to it are
\* in progress together, run_analysis is in progress only by itself or inside the
\* start() that called it, and the calls of one slot are made in the order they were
\* posted in, which is the order their producer emitted the signals in.
C27_OneAtATimeInOrder ==
    /\ Cardinality(loop.active) <= 1
    /\ running > 0 => \A e \in loop.active : e.slot = "start"
    /\ \A i, j \in DOMAIN loop.handled :
        (i < j /\ loop.handled[i].slot = loop.handled[j].slot)
            => loop.handled[i].seq < loop.handled[j].seq
    /\ \A e \in loop.active : \A i \in DOMAIN loop.handled :
        loop.handled[i].slot = e.slot => loop.handled[i].seq < e.seq

\* Two video segments were handled, and an audio segment waits in the queue while the
\* timer's run of the analysis is in progress.
C27_Witness ==
    /\ \E i, j \in DOMAIN loop.handled :
        /\ i < j
        /\ loop.handled[i].slot = "process_video"
        /\ loop.handled[j].slot = "process_video"
    /\ \E i \in DOMAIN loop.queue : loop.queue[i].slot = "process_audio"
    /\ running = 1
    /\ loop.active = {}

C29_EveryEventRecorded == Cardinality(events) >= Len(eventlog.lines)

\* C30: the record set of an analysis run is exactly the non-deleted Capture and Event
\* rows whose timestamp lies between the window's start and the time of the run.
C30_WindowRecordSet ==
    last.op = "analysis" =>
        LET InWindow(rows) ==
                {r \in rows : /\ ~r.deleted
                              /\ r.timestamp >= last.at - AnalysisWindow(last.arg)
                              /\ r.timestamp <= last.at}
        IN last.rows = {<<"capture", r>> : r \in InWindow(captures)}
                           \cup {<<"event", r>> : r \in InWindow(events)}

\* C31: with the voice gate enabled no block without speech is accumulated: none is in
\* the segment being built and counts towards its length.
C31_NonSpeechDropped == audio.use_vad => audio.silent = 0

\* The shots saved before the i-th.
SavedBefore(i) == {j \in 1..(i - 1) : screen.shots[j].saved}

\* The last of a set of positions.
Latest(positions) == CHOOSE j \in positions : \A k \in positions : k <= j

\* C32: in still mode a grabbed frame is saved if and only if no frame was saved before
\* it or it differs from the most recently saved frame by the threshold at least; the
\* frame compared with is the most recently saved one, whatever was grabbed since.
C32_SavedIffChangedSinceLastSaved ==
    /\ \A i \in DOMAIN screen.shots :
        screen.shots[i].saved <=>
            \/ SavedBefore(i) = {}
            \/ FrameDifferenceRatio(screen.shots[i].frame,
                                    screen.shots[Latest(SavedBefore(i))].frame)
                   >= screen.change_threshold
    /\ LET saved == {j \in DOMAIN screen.shots : screen.shots[j].saved}
       IN screen.previous = IF saved = {} THEN NoFrame ELSE screen.shots[Latest(saved)].frame

\* Three frames of one shape, each differing from the one before by less than the
\* threshold: the first is saved, the second is not, the third is, the drift from the
\* first having reached the threshold.
C32_Witness ==
    /\ Len(screen.shots) = 3
    /\ screen.change_threshold = 2
    /\ \A i \in 1..3 : screen.shots[i].frame = [shape |-> 1, level |-> i - 1]
    /\ screen.shots[1].saved
    /\ ~screen.shots[2].saved
    /\ screen.shots[3].saved

\* C33: at most one video writer is open at any time, it is the one _video_writer holds,
\* and when no capture loop is left, however the last one ended, none is open.
C33_OneWriterOpen ==
    /\ screen.open <= 1
    /\ screen.open = (IF screen.writer THEN 1 ELSE 0)
    /\ screen.loops = 0 => screen.open = 0

\* Segments were rotated, and the loop has ended through an exception in the write of a
\* frame into the writer of a later segment, which was released.
C33_Witness ==
    /\ Len(emitted) >= 3
    /\ emitted[1].written
    /\ emitted[2].written
    /\ ~emitted[Len(emitted)].written
    /\ screen.good
    /\ screen.loops = 0
    /\ screen.open = 0

\* C34: a handler run whose insert of the Capture row raised and was rolled back leaves
\* the artifact on disk: it unlinks no file.
C34_DeletedOnlyAfterCommit ==
    (last.op \in {"process_audio", "process_video"} /\ "commit" \in calls /\ last.raised)
        => (last.unlinked = {} /\ last.arg \in Paths(files))

\* C35: once ScreenCapture.stop() has been called, the capture loop ends, wherever the
\* screen thread was when stop() was called: not yet in start(), in the loop, or past it.
C35_StopEndsScreenLoop ==
    Signalled("screen") ~> (screen.loops = 0 /\ window.thread["screen"] \notin {"started", "in start"})

\* C36: when start_recording has failed after starting the producer threads, no capture
\* loop is running and none is about to be: every thread it started is back from start()
\* with its loop ended.
C36_FailedStartLeavesNoLoop ==
    (window.failure = "pipeline" /\ ~window.stop_btn /\ window.step = 0) =>
        /\ screen.loops = 0
        /\ audio.loops = 0
        /\ \A k \in {"screen", "audio"} : window.thread[k] \notin {"started", "in start"}

\* C37: while the tracker is stopped, stop() having returned and start() not having been
\* called again, no step appends an entry to the event log.
C37_NoEntryAfterStop ==
    [][~tracker.running => eventlog'.lines = eventlog.lines]_vars

\* C38: start() called with the analysis timer active leaves the timer, the interval it
\* is in, the runs made and in progress and the store as they were; stop() called with
\* the timer inactive does the same.
C38_RedundantStartStopIsNoOp ==
    [][/\ (pipeline_start /\ timerActive) => UNCHANGED <<scheduler, store>>
       /\ (pipeline_stop /\ ~timerActive) => UNCHANGED <<scheduler, store>>]_vars

\* start() was called and ignored with the timer active, after an interval had elapsed
\* whose run has not been made yet: the timer is active and the run is still due.
C38_Witness ==
    /\ calls = {"warning"}
    /\ timerActive
    /\ due
    /\ runs = 1
    /\ running = 0

\* C40: at most one execution of a workflow is in progress at any time, is_running() is
\* true exactly while one is, and a call made while _running is set is refused without
\* a step.
C40_OneExecutionAtATime ==
    /\ Cardinality({t \in Callers : window.executor.call[t].at = "running"}) <= 1
    /\ window.executor.running <=> (\E t \in Callers : window.executor.call[t].at = "running")
    /\ \A t \in Callers : window.executor.call[t].result = "refused" =>
           window.executor.call[t].completed = 0
====
